---- MODULE Spec2Model ----
(***************************************************************************)
(* Model of the res-core NES emulator core: the 6502 interpreter with its  *)
(* memory bus (CPU <-> APU / PPU registers <-> NROM mapper), the loaders,  *)
(* reset and the interrupt entry points.                                   *)
(*                                                                         *)
(* Byte arrays that the program zero-initialises (CPU memory, PPU VRAM,    *)
(* palette, OAM, APU registers, PRG/CHR vectors) are kept as functions     *)
(* whose domain is the set of indexes holding a non-zero byte.            *)
(***************************************************************************)
EXTENDS Integers, Naturals, Sequences, FiniteSets, TLC

VARIABLES cpu, next_mapper_id, overflow_checks, run, ev, ops

vars == <<cpu, next_mapper_id, overflow_checks, run, ev, ops>>

(***************************************************************************)
(* Fixed-width integer helpers                                             *)
(***************************************************************************)
RECURSIVE BitAndN(_, _, _)
BitAndN(a, b, n) ==
  IF n = 0 THEN 0
  ELSE (a % 2) * (b % 2) + 2 * BitAndN(a \div 2, b \div 2, n - 1)

RECURSIVE BitOrN(_, _, _)
BitOrN(a, b, n) ==
  IF n = 0 THEN 0
  ELSE (IF (a % 2) + (b % 2) > 0 THEN 1 ELSE 0) + 2 * BitOrN(a \div 2, b \div 2, n - 1)

RECURSIVE BitXorN(_, _, _)
BitXorN(a, b, n) ==
  IF n = 0 THEN 0
  ELSE ((a + b) % 2) + 2 * BitXorN(a \div 2, b \div 2, n - 1)

BitAnd(a, b) == BitAndN(a, b, 16)
BitOr(a, b)  == BitOrN(a, b, 16)
BitXor(a, b) == BitXorN(a, b, 16)

\* !mask on a u16
Not16(a) == 65535 - a

\* wrapping_add / wrapping_sub on u8 and u16
Wrap8(n)  == n % 256
Wrap16(n) == n % 65536

\* `b as i8 as u16`: sign extension of a byte to 16 bits
SignExt(b) == IF b >= 128 THEN 65280 + b ELSE b

\* `b as i8` seen as an integer
AsI8(b) == IF b >= 128 THEN b - 256 ELSE b

Hi(w) == (w \div 256) % 256
Lo(w) == w % 256

(***************************************************************************)
(* Zero-initialised byte arrays                                            *)
(***************************************************************************)
Zeros == [i \in {} |-> 0]

Get(f, i) == IF i \in DOMAIN f THEN f[i] ELSE 0

Put(f, i, v) ==
  IF v = 0 THEN [j \in (DOMAIN f) \ {i} |-> f[j]]
  ELSE [j \in (DOMAIN f) \cup {i} |-> IF j = i THEN v ELSE f[j]]

(***************************************************************************)
(* CpuFlags                                                                *)
(***************************************************************************)
CARRY             == 1
ZERO              == 2
INTERRUPT_DISABLE == 4
DECIMAL_MODE      == 8
BREAK             == 16
BREAK2            == 32
OVERFLOW          == 64
NEGATIV           == 128

contains(p, f) == (p \div f) % 2 = 1
insert(p, f)   == IF contains(p, f) THEN p ELSE p + f
remove(p, f)   == IF contains(p, f) THEN p - f ELSE p
set(p, f, b)   == IF b THEN insert(p, f) ELSE remove(p, f)

STACK          == 256
STACK_RESET    == 253
NMI_VECTOR     == 65530
RESET_VECTOR   == 65532
IRQ_BRK_VECTOR == 65534

(***************************************************************************)
(* NROM mapper                                                             *)
(***************************************************************************)
PRG_ROM_BANK_SIZE == 16384
CHR_BANK_SIZE     == 8192

\* Option<Rc<RefCell<dyn Mapper>>>::None
NoMapper == [id |-> 0]

IsSome(m) == m.id # 0

\* NromMapper::new: Ok(mapper contents) or the error
NromMapper_new(prg_rom, chr_rom, has_chr_ram) ==
  IF prg_rom.len \notin {16384, 32768}
  THEN [ok |-> FALSE, err |-> <<"InvalidPrgSize", prg_rom.len>>]
  ELSE [ok |-> TRUE,
        prg_rom |-> prg_rom,
        chr |-> IF has_chr_ram THEN [len |-> CHR_BANK_SIZE, bytes |-> Zeros] ELSE chr_rom,
        chr_is_ram |-> has_chr_ram]

\* a cpu_read that does not mirror a 16 KiB image into $C000-$FFFF
cpu_read_unmirrored(m, addr) ==
  IF ~(addr >= 32768 /\ addr <= 65535) THEN <<FALSE, 0>>
  ELSE <<TRUE, Get(m.prg_rom.bytes, addr - 32768)>>

\* Mapper::cpu_read: <<TRUE, byte>> for Some(byte), <<FALSE, 0>> for None
cpu_read(m, addr) ==
  IF ~(addr >= 32768 /\ addr <= 65535) THEN <<FALSE, 0>>
  ELSE LET mapped == IF m.prg_rom.len = PRG_ROM_BANK_SIZE
                     THEN (addr - 32768) % PRG_ROM_BANK_SIZE
                     ELSE addr - 32768
       IN <<TRUE, Get(m.prg_rom.bytes, mapped)>>

\* a mapper that declines every write
cpu_write_declined(m, addr, data) == FALSE

\* Mapper::cpu_write: the mapper is unchanged, the result says "absorbed"
cpu_write(m, addr, data) == addr >= 32768 /\ addr <= 65535

\* a CHR area that stores writes whether it is RAM or ROM
ppu_write_always_stores(m, addr, data) ==
  IF addr > 8191 THEN <<FALSE, m>>
  ELSE <<TRUE, [m EXCEPT !.chr.bytes = Put(@, addr, data)]>>

\* Mapper::ppu_read: kind "Some" with the byte, kind "None", or kind "panic"
\* where the index lies beyond a CHR ROM that is neither empty nor 8 KiB
ppu_read(m, addr) ==
  IF addr > 8191 THEN [kind |-> "None", byte |-> 0]
  ELSE IF m.chr.len = 0 THEN [kind |-> "Some", byte |-> 0]
  ELSE IF addr >= m.chr.len THEN [kind |-> "panic", byte |-> 0]
  ELSE [kind |-> "Some", byte |-> Get(m.chr.bytes, addr)]

\* Mapper::ppu_write: <<result, mapper afterwards>>
ppu_write(m, addr, data) ==
  IF addr > 8191 THEN <<FALSE, m>>
  ELSE IF m.chr_is_ram
       THEN <<TRUE, [m EXCEPT !.chr.bytes = Put(@, addr, data)]>>
       ELSE <<TRUE, m>>

(***************************************************************************)
(* APU stub                                                                *)
(***************************************************************************)
is_apu_register(addr) == addr >= 16384 /\ addr <= 16407

Apu_new == [registers |-> Zeros]

Apu_write_register(apu, addr, data) ==
  IF is_apu_register(addr)
  THEN [apu EXCEPT !.registers = Put(apu.registers, addr - 16384, data)]
  ELSE apu

\* an APU whose registers all read back what was written
Apu_read_register_readback(apu, addr) ==
  IF ~is_apu_register(addr) THEN 0 ELSE Get(apu.registers, addr - 16384)

Apu_read_register(apu, addr) ==
  IF ~is_apu_register(addr) THEN 0
  ELSE IF addr = 16405 THEN Get(apu.registers, addr - 16384)
  ELSE 0

(***************************************************************************)
(* PPU register interface                                                  *)
(***************************************************************************)
PPU_CTRL     == 8192
PPU_MASK     == 8193
PPU_STATUS   == 8194
PPU_OAM_ADDR == 8195
PPU_OAM_DATA == 8196
PPU_SCROLL   == 8197
PPU_ADDR     == 8198
PPU_DATA     == 8199

Mirrorings == {"Horizontal", "Vertical", "FourScreen"}

Ppu_new(mirroring) ==
  [ctrl |-> 0, mask |-> 0, status |-> 0, oam_addr |-> 0,
   addr_latch |-> FALSE, scroll_latch |-> FALSE,
   vram_addr |-> 0, temp_vram_addr |-> 0, read_buffer |-> 0,
   vram |-> Zeros, palette_table |-> Zeros, oam_data |-> Zeros,
   mirroring |-> mirroring,
   mapper |-> NoMapper]

set_mirroring(ppu, mirroring) == [ppu EXCEPT !.mirroring = mirroring]

\* Ppu::set_mapper: stores the shared handle (or None) in the PPU
set_mapper(ppu, m) == [ppu EXCEPT !.mapper = m]

\* an address increment that ignores PPUCTRL bit 2
vram_addr_increment_by_one(ppu) == 1

vram_addr_increment(ppu) == IF BitAnd(ppu.ctrl, 4) # 0 THEN 32 ELSE 1

normalize_ppu_addr(addr) == BitAnd(addr, 16383)

\* a nametable mapping with vertical and horizontal mirroring exchanged
mirror_vram_addr_tables_swapped(ppu, addr) ==
  LET vram_index == addr - 8192
      table      == vram_index \div 1024
      offset     == vram_index % 1024
      mapped_table ==
        CASE ppu.mirroring = "Vertical"   -> (IF table \in {0, 1} THEN 0 ELSE 1)
          [] ppu.mirroring = "Horizontal" -> (IF table \in {0, 2} THEN 0 ELSE 1)
          [] ppu.mirroring = "FourScreen" -> (IF table \in {0, 1} THEN 0 ELSE 1)
  IN mapped_table * 1024 + offset

mirror_vram_addr(ppu, addr) ==
  LET vram_index == addr - 8192
      table      == vram_index \div 1024
      offset     == vram_index % 1024
      mapped_table ==
        CASE ppu.mirroring = "Vertical"   -> (IF table \in {0, 2} THEN 0 ELSE 1)
          [] ppu.mirroring = "Horizontal" -> (IF table \in {0, 1} THEN 0 ELSE 1)
          [] ppu.mirroring = "FourScreen" -> (IF table \in {0, 2} THEN 0 ELSE 1)
  IN mapped_table * 1024 + offset

\* a palette index without the $10/$14/$18/$1C aliases
mirror_palette_addr_no_alias(addr) == (addr - 16128) % 32

mirror_palette_addr(addr) ==
  LET idx == (addr - 16128) % 32
  IN IF idx \in {16, 20, 24, 28} THEN idx - 16 ELSE idx

ppu_mem_read(ppu, addr) ==
  CASE addr >= 0 /\ addr <= 8191      -> 0
    [] addr >= 8192 /\ addr <= 12287  -> Get(ppu.vram, mirror_vram_addr(ppu, addr))
    [] addr >= 12288 /\ addr <= 16127 -> Get(ppu.vram, mirror_vram_addr(ppu, addr - 4096))
    [] addr >= 16128 /\ addr <= 16383 -> Get(ppu.palette_table, mirror_palette_addr(addr))
    [] OTHER -> 0

ppu_mem_write(ppu, addr, data) ==
  CASE addr >= 0 /\ addr <= 8191      -> ppu
    [] addr >= 8192 /\ addr <= 12287  ->
         [ppu EXCEPT !.vram = Put(ppu.vram, mirror_vram_addr(ppu, addr), data)]
    [] addr >= 12288 /\ addr <= 16127 ->
         [ppu EXCEPT !.vram = Put(ppu.vram, mirror_vram_addr(ppu, addr - 4096), data)]
    [] addr >= 16128 /\ addr <= 16383 ->
         [ppu EXCEPT !.palette_table = Put(ppu.palette_table, mirror_palette_addr(addr), data)]
    [] OTHER -> ppu

\* read_ppu_data: <<returned byte, PPU afterwards>>
read_ppu_data(ppu) ==
  LET addr == normalize_ppu_addr(ppu.vram_addr)
      next == Wrap16(ppu.vram_addr + vram_addr_increment(ppu))
  IN IF addr >= 16128
     THEN <<ppu_mem_read(ppu, addr),
            [ppu EXCEPT !.read_buffer = ppu_mem_read(ppu, Wrap16(addr + 65536 - 4096)),
                        !.vram_addr = next]>>
     ELSE <<ppu.read_buffer,
            [ppu EXCEPT !.read_buffer = ppu_mem_read(ppu, addr),
                        !.vram_addr = next]>>

write_ppu_data(ppu, data) ==
  [ppu_mem_write(ppu, normalize_ppu_addr(ppu.vram_addr), data)
     EXCEPT !.vram_addr = Wrap16(ppu.vram_addr + vram_addr_increment(ppu))]

\* a read_register whose PPUSTATUS read resets only the address latch
read_register_keep_scroll_latch(ppu, reg) ==
  CASE reg \in {PPU_CTRL, PPU_MASK, PPU_OAM_ADDR, PPU_SCROLL, PPU_ADDR} -> <<0, ppu>>
    [] reg = PPU_STATUS ->
         <<ppu.status, [ppu EXCEPT !.status = BitAnd(ppu.status, 127),
                                   !.addr_latch = FALSE]>>
    [] reg = PPU_OAM_DATA -> <<Get(ppu.oam_data, ppu.oam_addr), ppu>>
    [] reg = PPU_DATA -> read_ppu_data(ppu)
    [] OTHER -> <<0, ppu>>

\* a read_register whose PPUSTATUS read leaves the write latches alone
read_register_keep_latches(ppu, reg) ==
  CASE reg = PPU_STATUS ->
         <<ppu.status, [ppu EXCEPT !.status = BitAnd(ppu.status, 127)]>>
    [] reg = PPU_OAM_DATA -> <<Get(ppu.oam_data, ppu.oam_addr), ppu>>
    [] reg = PPU_DATA -> read_ppu_data(ppu)
    [] OTHER -> <<0, ppu>>

\* Ppu::read_register: <<returned byte, PPU afterwards>>
read_register(ppu, reg) ==
  CASE reg \in {PPU_CTRL, PPU_MASK, PPU_OAM_ADDR, PPU_SCROLL, PPU_ADDR} -> <<0, ppu>>
    [] reg = PPU_STATUS ->
         <<ppu.status,
           [ppu EXCEPT !.status = BitAnd(ppu.status, 127),
                       !.addr_latch = FALSE,
                       !.scroll_latch = FALSE]>>
    [] reg = PPU_OAM_DATA -> <<Get(ppu.oam_data, ppu.oam_addr), ppu>>
    [] reg = PPU_DATA -> read_ppu_data(ppu)
    [] OTHER -> <<0, ppu>>

\* a write_register whose first PPUADDR write keeps all eight bits of the byte
write_register_high_byte_unmasked(ppu, reg, data) ==
  CASE reg = PPU_CTRL ->
         [ppu EXCEPT !.ctrl = data,
                     !.temp_vram_addr =
                        BitOr(BitAnd(ppu.temp_vram_addr, Not16(3072)),
                              BitAnd(data, 3) * 1024)]
    [] reg = PPU_MASK -> [ppu EXCEPT !.mask = data]
    [] reg = PPU_STATUS -> ppu
    [] reg = PPU_OAM_ADDR -> [ppu EXCEPT !.oam_addr = data]
    [] reg = PPU_OAM_DATA ->
         [ppu EXCEPT !.oam_data = Put(ppu.oam_data, ppu.oam_addr, data),
                     !.oam_addr = Wrap8(ppu.oam_addr + 1)]
    [] reg = PPU_SCROLL ->
         IF ~ppu.scroll_latch
         THEN [ppu EXCEPT !.temp_vram_addr =
                             BitOr(BitAnd(ppu.temp_vram_addr, Not16(31)), data \div 8),
                          !.scroll_latch = TRUE]
         ELSE [ppu EXCEPT !.temp_vram_addr =
                             BitOr(BitOr(BitAnd(ppu.temp_vram_addr, Not16(29664)),
                                         BitAnd(data, 7) * 4096),
                                   BitAnd(data, 248) * 4),
                          !.scroll_latch = FALSE]
    [] reg = PPU_ADDR ->
         IF ~ppu.addr_latch
         THEN [ppu EXCEPT !.temp_vram_addr =
                             BitOr(BitAnd(ppu.temp_vram_addr, 255), data * 256),
                          !.addr_latch = TRUE]
         ELSE [ppu EXCEPT !.temp_vram_addr = BitOr(BitAnd(ppu.temp_vram_addr, 65280), data),
                          !.vram_addr = BitOr(BitAnd(ppu.temp_vram_addr, 65280), data),
                          !.addr_latch = FALSE]
    [] reg = PPU_DATA -> write_ppu_data(ppu, data)
    [] OTHER -> ppu

write_register(ppu, reg, data) ==
  CASE reg = PPU_CTRL ->
         [ppu EXCEPT !.ctrl = data,
                     !.temp_vram_addr =
                        BitOr(BitAnd(ppu.temp_vram_addr, Not16(3072)),
                              BitAnd(data, 3) * 1024)]
    [] reg = PPU_MASK -> [ppu EXCEPT !.mask = data]
    [] reg = PPU_STATUS -> ppu
    [] reg = PPU_OAM_ADDR -> [ppu EXCEPT !.oam_addr = data]
    [] reg = PPU_OAM_DATA ->
         [ppu EXCEPT !.oam_data = Put(ppu.oam_data, ppu.oam_addr, data),
                     !.oam_addr = Wrap8(ppu.oam_addr + 1)]
    [] reg = PPU_SCROLL ->
         IF ~ppu.scroll_latch
         THEN [ppu EXCEPT !.temp_vram_addr =
                             BitOr(BitAnd(ppu.temp_vram_addr, Not16(31)), data \div 8),
                          !.scroll_latch = TRUE]
         ELSE [ppu EXCEPT !.temp_vram_addr =
                             BitOr(BitOr(BitAnd(ppu.temp_vram_addr, Not16(29664)),
                                         BitAnd(data, 7) * 4096),
                                   BitAnd(data, 248) * 4),
                          !.scroll_latch = FALSE]
    [] reg = PPU_ADDR ->
         IF ~ppu.addr_latch
         THEN [ppu EXCEPT !.temp_vram_addr =
                             BitOr(BitAnd(ppu.temp_vram_addr, 255), BitAnd(data, 63) * 256),
                          !.addr_latch = TRUE]
         ELSE [ppu EXCEPT !.temp_vram_addr = BitOr(BitAnd(ppu.temp_vram_addr, 65280), data),
                          !.vram_addr = BitOr(BitAnd(ppu.temp_vram_addr, 65280), data),
                          !.addr_latch = FALSE]
    [] reg = PPU_DATA -> write_ppu_data(ppu, data)
    [] OTHER -> ppu

(***************************************************************************)
(* CPU and memory bus.  A read returns <<byte, CPU afterwards>> because a  *)
(* read in the PPU window goes through ppu.borrow_mut() and changes the    *)
(* PPU.                                                                    *)
(***************************************************************************)
CPU_new ==
  [register_a |-> 0, register_x |-> 0, register_y |-> 0,
   status |-> 36,
   program_counter |-> 0,
   stack_pointer |-> STACK_RESET,
   cycles |-> 0,
   memory |-> Zeros,
   apu |-> Apu_new,
   ppu |-> Ppu_new("Horizontal"),
   mapper |-> NoMapper]

\* a mem_read that uses the whole address as the PPU register number
mem_read_unmirrored(c, addr) ==
  CASE addr >= 16384 /\ addr <= 16407 -> <<Apu_read_register(c.apu, addr), c>>
    [] addr >= 8192 /\ addr <= 16383 ->
         LET from_ppu(r) == <<r[1], [c EXCEPT !.ppu = r[2]]>>
         IN from_ppu(read_register(c.ppu, addr))
    [] OTHER -> <<Get(c.memory, addr), c>>

mem_read(c, addr) ==
  CASE addr >= 16384 /\ addr <= 16407 -> <<Apu_read_register(c.apu, addr), c>>
    [] addr >= 8192 /\ addr <= 16383 ->
         LET from_ppu(r) == <<r[1], [c EXCEPT !.ppu = r[2]]>>
         IN from_ppu(read_register(c.ppu, 8192 + ((addr - 8192) % 8)))
    [] addr >= 32768 /\ addr <= 65535 ->
         LET from_mapper(data) ==
               IF data[1] THEN <<data[2], c>> ELSE <<Get(c.memory, addr), c>>
         IN from_mapper(IF IsSome(c.mapper) THEN cpu_read(c.mapper, addr) ELSE <<FALSE, 0>>)
    [] OTHER -> <<Get(c.memory, addr), c>>

mem_write(c, addr, data) ==
  CASE addr >= 16384 /\ addr <= 16407 ->
         [c EXCEPT !.apu = Apu_write_register(c.apu, addr, data)]
    [] addr >= 8192 /\ addr <= 16383 ->
         [c EXCEPT !.ppu = write_register(c.ppu, 8192 + ((addr - 8192) % 8), data)]
    [] addr >= 32768 /\ addr <= 65535 ->
         IF IsSome(c.mapper) /\ cpu_write(c.mapper, addr, data)
         THEN c
         ELSE [c EXCEPT !.memory = Put(c.memory, addr, data)]
    [] OTHER -> [c EXCEPT !.memory = Put(c.memory, addr, data)]

\* (hi << 8) | lo
Word(lo, hi) == BitOr(hi * 256, lo)

\* Mem::mem_read_u16: <<word, CPU afterwards>>
mem_read_u16(c, pos) ==
  LET with_lo(lo) ==
        LET with_hi(hi) == <<Word(lo[1], hi[1]), hi[2]>>
        IN with_hi(mem_read(lo[2], Wrap16(pos + 1)))
  IN with_lo(mem_read(c, pos))

\* a mem_write_u16 that stores the high byte at pos and the low byte after it
mem_write_u16_high_first(c, pos, data) ==
  mem_write(mem_write(c, pos, Hi(data)), Wrap16(pos + 1), BitAnd(data, 255))

mem_write_u16(c, pos, data) ==
  mem_write(mem_write(c, pos, BitAnd(data, 255)), Wrap16(pos + 1), Hi(data))

\* The value a read would return, without keeping its side effect
Peek(c, addr) == mem_read(c, addr)[1]
Peek16(c, addr) == mem_read_u16(c, addr)[1]

(***************************************************************************)
(* Opcode table: code -> (mnemonic, len, cycles, mode)                     *)
(***************************************************************************)
Op(code, mnemonic, len, cycles, mode) ==
  [code |-> code, mnemonic |-> mnemonic, len |-> len, cycles |-> cycles, mode |-> mode]

\* the entries listed in src/src/opcodes.rs
CPU_OPS_CODES == <<
  Op(0, "BRK", 1, 7, "NoneAddressing"),
  Op(170, "TAX", 1, 2, "NoneAddressing"),
  Op(232, "INX", 1, 2, "NoneAddressing"),
  Op(169, "LDA", 2, 2, "Immediate"),
  Op(165, "LDA", 2, 3, "ZeroPage"),
  Op(181, "LDA", 2, 4, "ZeroPage_X"),
  Op(173, "LDA", 3, 4, "Absolute"),
  Op(189, "LDA", 3, 4, "Absolute_X"),
  Op(185, "LDA", 3, 4, "Absolute_Y"),
  Op(161, "LDA", 2, 6, "Indirect_X"),
  Op(177, "LDA", 2, 5, "Indirect_Y"),
  Op(133, "STA", 2, 3, "ZeroPage"),
  Op(149, "STA", 2, 4, "ZeroPage_X"),
  Op(141, "STA", 3, 4, "Absolute"),
  Op(157, "STA", 3, 5, "Absolute_X"),
  Op(153, "STA", 3, 5, "Absolute_Y"),
  Op(129, "STA", 2, 6, "Indirect_X"),
  Op(145, "STA", 2, 6, "Indirect_Y") >>

\* the entries of the res-core table for the other opcodes the interpreter
\* dispatches (documented 6502 lengths and base cycles)
OPS_CODES_REST == <<
  Op(216, "CLD", 1, 2, "NoneAddressing"), Op(88, "CLI", 1, 2, "NoneAddressing"),
  Op(184, "CLV", 1, 2, "NoneAddressing"), Op(24, "CLC", 1, 2, "NoneAddressing"),
  Op(56, "SEC", 1, 2, "NoneAddressing"),  Op(120, "SEI", 1, 2, "NoneAddressing"),
  Op(248, "SED", 1, 2, "NoneAddressing"),
  Op(72, "PHA", 1, 3, "NoneAddressing"),  Op(104, "PLA", 1, 4, "NoneAddressing"),
  Op(8, "PHP", 1, 3, "NoneAddressing"),   Op(40, "PLP", 1, 4, "NoneAddressing"),
  Op(234, "NOP", 1, 2, "NoneAddressing"),
  Op(105, "ADC", 2, 2, "Immediate"),  Op(101, "ADC", 2, 3, "ZeroPage"),
  Op(117, "ADC", 2, 4, "ZeroPage_X"), Op(109, "ADC", 3, 4, "Absolute"),
  Op(125, "ADC", 3, 4, "Absolute_X"), Op(121, "ADC", 3, 4, "Absolute_Y"),
  Op(97, "ADC", 2, 6, "Indirect_X"),  Op(113, "ADC", 2, 5, "Indirect_Y"),
  Op(233, "SBC", 2, 2, "Immediate"),  Op(229, "SBC", 2, 3, "ZeroPage"),
  Op(245, "SBC", 2, 4, "ZeroPage_X"), Op(237, "SBC", 3, 4, "Absolute"),
  Op(253, "SBC", 3, 4, "Absolute_X"), Op(249, "SBC", 3, 4, "Absolute_Y"),
  Op(225, "SBC", 2, 6, "Indirect_X"), Op(241, "SBC", 2, 5, "Indirect_Y"),
  Op(41, "AND", 2, 2, "Immediate"),   Op(37, "AND", 2, 3, "ZeroPage"),
  Op(53, "AND", 2, 4, "ZeroPage_X"),  Op(45, "AND", 3, 4, "Absolute"),
  Op(61, "AND", 3, 4, "Absolute_X"),  Op(57, "AND", 3, 4, "Absolute_Y"),
  Op(33, "AND", 2, 6, "Indirect_X"),  Op(49, "AND", 2, 5, "Indirect_Y"),
  Op(73, "EOR", 2, 2, "Immediate"),   Op(69, "EOR", 2, 3, "ZeroPage"),
  Op(85, "EOR", 2, 4, "ZeroPage_X"),  Op(77, "EOR", 3, 4, "Absolute"),
  Op(93, "EOR", 3, 4, "Absolute_X"),  Op(89, "EOR", 3, 4, "Absolute_Y"),
  Op(65, "EOR", 2, 6, "Indirect_X"),  Op(81, "EOR", 2, 5, "Indirect_Y"),
  Op(9, "ORA", 2, 2, "Immediate"),    Op(5, "ORA", 2, 3, "ZeroPage"),
  Op(21, "ORA", 2, 4, "ZeroPage_X"),  Op(13, "ORA", 3, 4, "Absolute"),
  Op(29, "ORA", 3, 4, "Absolute_X"),  Op(25, "ORA", 3, 4, "Absolute_Y"),
  Op(1, "ORA", 2, 6, "Indirect_X"),   Op(17, "ORA", 2, 5, "Indirect_Y"),
  Op(10, "ASL", 1, 2, "NoneAddressing"), Op(6, "ASL", 2, 5, "ZeroPage"),
  Op(22, "ASL", 2, 6, "ZeroPage_X"),  Op(14, "ASL", 3, 6, "Absolute"),
  Op(30, "ASL", 3, 7, "Absolute_X"),
  Op(74, "LSR", 1, 2, "NoneAddressing"), Op(70, "LSR", 2, 5, "ZeroPage"),
  Op(86, "LSR", 2, 6, "ZeroPage_X"),  Op(78, "LSR", 3, 6, "Absolute"),
  Op(94, "LSR", 3, 7, "Absolute_X"),
  Op(42, "ROL", 1, 2, "NoneAddressing"), Op(38, "ROL", 2, 5, "ZeroPage"),
  Op(54, "ROL", 2, 6, "ZeroPage_X"),  Op(46, "ROL", 3, 6, "Absolute"),
  Op(62, "ROL", 3, 7, "Absolute_X"),
  Op(106, "ROR", 1, 2, "NoneAddressing"), Op(102, "ROR", 2, 5, "ZeroPage"),
  Op(118, "ROR", 2, 6, "ZeroPage_X"), Op(110, "ROR", 3, 6, "Absolute"),
  Op(126, "ROR", 3, 7, "Absolute_X"),
  Op(230, "INC", 2, 5, "ZeroPage"),   Op(246, "INC", 2, 6, "ZeroPage_X"),
  Op(238, "INC", 3, 6, "Absolute"),   Op(254, "INC", 3, 7, "Absolute_X"),
  Op(200, "INY", 1, 2, "NoneAddressing"),
  Op(198, "DEC", 2, 5, "ZeroPage"),   Op(214, "DEC", 2, 6, "ZeroPage_X"),
  Op(206, "DEC", 3, 6, "Absolute"),   Op(222, "DEC", 3, 7, "Absolute_X"),
  Op(202, "DEX", 1, 2, "NoneAddressing"), Op(136, "DEY", 1, 2, "NoneAddressing"),
  Op(201, "CMP", 2, 2, "Immediate"),  Op(197, "CMP", 2, 3, "ZeroPage"),
  Op(213, "CMP", 2, 4, "ZeroPage_X"), Op(205, "CMP", 3, 4, "Absolute"),
  Op(221, "CMP", 3, 4, "Absolute_X"), Op(217, "CMP", 3, 4, "Absolute_Y"),
  Op(193, "CMP", 2, 6, "Indirect_X"), Op(209, "CMP", 2, 5, "Indirect_Y"),
  Op(192, "CPY", 2, 2, "Immediate"),  Op(196, "CPY", 2, 3, "ZeroPage"),
  Op(204, "CPY", 3, 4, "Absolute"),
  Op(224, "CPX", 2, 2, "Immediate"),  Op(228, "CPX", 2, 3, "ZeroPage"),
  Op(236, "CPX", 3, 4, "Absolute"),
  Op(76, "JMP", 3, 3, "NoneAddressing"), Op(108, "JMP", 3, 5, "NoneAddressing"),
  Op(32, "JSR", 3, 6, "NoneAddressing"), Op(96, "RTS", 1, 6, "NoneAddressing"),
  Op(64, "RTI", 1, 6, "NoneAddressing"),
  Op(208, "BNE", 2, 2, "NoneAddressing"), Op(112, "BVS", 2, 2, "NoneAddressing"),
  Op(80, "BVC", 2, 2, "NoneAddressing"),  Op(16, "BPL", 2, 2, "NoneAddressing"),
  Op(48, "BMI", 2, 2, "NoneAddressing"),  Op(240, "BEQ", 2, 2, "NoneAddressing"),
  Op(176, "BCS", 2, 2, "NoneAddressing"), Op(144, "BCC", 2, 2, "NoneAddressing"),
  Op(36, "BIT", 2, 3, "ZeroPage"),    Op(44, "BIT", 3, 4, "Absolute"),
  Op(162, "LDX", 2, 2, "Immediate"),  Op(166, "LDX", 2, 3, "ZeroPage"),
  Op(182, "LDX", 2, 4, "ZeroPage_Y"), Op(174, "LDX", 3, 4, "Absolute"),
  Op(190, "LDX", 3, 4, "Absolute_Y"),
  Op(160, "LDY", 2, 2, "Immediate"),  Op(164, "LDY", 2, 3, "ZeroPage"),
  Op(180, "LDY", 2, 4, "ZeroPage_X"), Op(172, "LDY", 3, 4, "Absolute"),
  Op(188, "LDY", 3, 4, "Absolute_X"),
  Op(134, "STX", 2, 3, "ZeroPage"),   Op(150, "STX", 2, 4, "ZeroPage_Y"),
  Op(142, "STX", 3, 4, "Absolute"),
  Op(132, "STY", 2, 3, "ZeroPage"),   Op(148, "STY", 2, 4, "ZeroPage_X"),
  Op(140, "STY", 3, 4, "Absolute"),
  Op(168, "TAY", 1, 2, "NoneAddressing"), Op(186, "TSX", 1, 2, "NoneAddressing"),
  Op(138, "TXA", 1, 2, "NoneAddressing"), Op(154, "TXS", 1, 2, "NoneAddressing"),
  Op(152, "TYA", 1, 2, "NoneAddressing") >>

ALL_OPS_CODES == CPU_OPS_CODES \o OPS_CODES_REST

OpCodes == {ALL_OPS_CODES[i].code : i \in DOMAIN ALL_OPS_CODES}

\* the HashMap built from the table
OPCODES_MAP ==
  [code \in OpCodes |->
     ALL_OPS_CODES[CHOOSE i \in DOMAIN ALL_OPS_CODES : ALL_OPS_CODES[i].code = code]]

(***************************************************************************)
(* Addressing modes.  Operators that read memory return <<value, CPU>>.    *)
(***************************************************************************)
\* the little-endian word at {ptr, (ptr + 1) mod 256} of page zero
mem_read_zp_u16(c, ptr) ==
  LET with_lo(lo) ==
        LET with_hi(hi) == <<Word(lo[1], hi[1]), hi[2]>>
        IN with_hi(mem_read(lo[2], Wrap8(ptr + 1)))
  IN with_lo(mem_read(c, ptr))

\* base.wrapping_add(index as u16) on a <<base, CPU>> read
add_index(r, index) == <<Wrap16(r[1] + index), r[2]>>

\* pos.wrapping_add(index) on a <<pos, CPU>> read of a zero-page operand
add_index_u8(r, index) == <<Wrap8(r[1] + index), r[2]>>

\* (base & 0xFF00) != (base.wrapping_add(index) & 0xFF00) on a <<base, CPU>> read
high_byte_differs(r, index) ==
  <<BitAnd(r[1], 65280) # BitAnd(Wrap16(r[1] + index), 65280), r[2]>>

\* the zero-page pointer dereference of Indirect_Y
deref_indirect_y(base) == mem_read_zp_u16(base[2], base[1])

did_page_cross(c, mode) ==
  CASE mode = "Absolute_X" ->
         high_byte_differs(mem_read_u16(c, c.program_counter), c.register_x)
    [] mode = "Absolute_Y" ->
         high_byte_differs(mem_read_u16(c, c.program_counter), c.register_y)
    [] mode = "Indirect_Y" ->
         high_byte_differs(deref_indirect_y(mem_read(c, c.program_counter)), c.register_y)
    [] OTHER -> <<FALSE, c>>

\* a penalty set that also lists the indexed stores STA abs,X / abs,Y / (zp),Y
opcode_has_page_cross_penalty_with_stores(code) ==
  code \in {189, 185, 177, 125, 121, 113, 253, 249, 241, 61, 57, 49,
            93, 89, 81, 29, 25, 17, 221, 217, 209, 190, 188, 157, 153, 145}

opcode_has_page_cross_penalty(code) ==
  code \in {189, 185, 177, 125, 121, 113, 253, 249, 241, 61, 57, 49,
            93, 89, 81, 29, 25, 17, 221, 217, 209, 190, 188}

get_operand_address(c, mode) ==
  CASE mode = "Immediate" -> <<c.program_counter, c>>
    [] mode = "ZeroPage" -> mem_read(c, c.program_counter)
    [] mode = "Absolute" -> mem_read_u16(c, c.program_counter)
    [] mode = "ZeroPage_X" -> add_index_u8(mem_read(c, c.program_counter), c.register_x)
    [] mode = "ZeroPage_Y" -> add_index_u8(mem_read(c, c.program_counter), c.register_y)
    [] mode = "Absolute_X" -> add_index(mem_read_u16(c, c.program_counter), c.register_x)
    [] mode = "Absolute_Y" -> add_index(mem_read_u16(c, c.program_counter), c.register_y)
    [] mode = "Indirect_X" ->
         LET with_ptr(ptr) == mem_read_zp_u16(ptr[2], ptr[1])
         IN with_ptr(add_index_u8(mem_read(c, c.program_counter), c.register_x))
    [] mode = "Indirect_Y" ->
         add_index(deref_indirect_y(mem_read(c, c.program_counter)), c.register_y)

\* get_operand_address followed by mem_read of that address:
\* <<value, CPU, address>>
read_operand(c, mode) ==
  LET with_addr(a) ==
        LET with_value(v) == <<v[1], v[2], a[1]>>
        IN with_value(mem_read(a[2], a[1]))
  IN with_addr(get_operand_address(c, mode))

(***************************************************************************)
(* Flag and register helpers                                               *)
(***************************************************************************)
set_carry_flag(c)   == [c EXCEPT !.status = insert(c.status, CARRY)]
clear_carry_flag(c) == [c EXCEPT !.status = remove(c.status, CARRY)]
carry_from(c, b)    == IF b THEN set_carry_flag(c) ELSE clear_carry_flag(c)

update_zero_and_negative_flags(c, result) ==
  [c EXCEPT !.status = set(set(c.status, ZERO, result = 0), NEGATIV, result \div 128 = 1)]

update_negative_flags(c, result) ==
  [c EXCEPT !.status = set(c.status, NEGATIV, result \div 128 = 1)]

\* a set_register_a that leaves ZERO and NEGATIVE as they were
set_register_a_keep_flags(c, value) ==
  [c EXCEPT !.register_a = value]

set_register_a(c, value) ==
  update_zero_and_negative_flags([c EXCEPT !.register_a = value], value)

set_register_x(c, value) ==
  update_zero_and_negative_flags([c EXCEPT !.register_x = value], value)

set_register_y(c, value) ==
  update_zero_and_negative_flags([c EXCEPT !.register_y = value], value)

\* an addition whose overflow test leaves the carry-in out of the sum
add_to_register_a_overflow_without_carry(c, data) ==
  LET sum    == c.register_a + data + (IF contains(c.status, CARRY) THEN 1 ELSE 0)
      result == sum % 256
      partial == (c.register_a + data) % 256
      ovf    == BitAnd(BitAnd(BitXor(data, partial), BitXor(partial, c.register_a)), 128) # 0
      with_flags(c1) == set_register_a([c1 EXCEPT !.status = set(c1.status, OVERFLOW, ovf)],
                                       result)
  IN with_flags(carry_from(c, sum > 255))

add_to_register_a(c, data) ==
  LET sum    == c.register_a + data + (IF contains(c.status, CARRY) THEN 1 ELSE 0)
      result == sum % 256
      ovf    == BitAnd(BitAnd(BitXor(data, result), BitXor(result, c.register_a)), 128) # 0
      with_flags(c1) == set_register_a([c1 EXCEPT !.status = set(c1.status, OVERFLOW, ovf)],
                                       result)
  IN with_flags(carry_from(c, sum > 255))

(***************************************************************************)
(* Stack                                                                   *)
(***************************************************************************)
pushed(c1, sp) == [c1 EXCEPT !.stack_pointer = Wrap8(sp + 255)]

stack_push(c, data) ==
  pushed(mem_write(c, STACK + c.stack_pointer, data), c.stack_pointer)

\* <<byte, CPU>>
stack_pop(c) ==
  mem_read([c EXCEPT !.stack_pointer = Wrap8(c.stack_pointer + 1)],
           STACK + Wrap8(c.stack_pointer + 1))

\* a stack_push_u16 that pushes the low byte before the high byte
stack_push_u16_low_first(c, data) ==
  stack_push(stack_push(c, BitAnd(data, 255)), Hi(data))

stack_push_u16(c, data) ==
  stack_push(stack_push(c, Hi(data)), BitAnd(data, 255))

\* <<word, CPU>>
stack_pop_u16(c) ==
  LET with_lo(lo) ==
        LET with_hi(hi) == <<Word(lo[1], hi[1]), hi[2]>>
        IN with_hi(stack_pop(lo[2]))
  IN with_lo(stack_pop(c))

(***************************************************************************)
(* Instructions.  For an operand read r: r[1] is the byte, r[2] the CPU    *)
(* after the reads, r[3] the effective address.                            *)
(***************************************************************************)
lda(c, mode) ==
  LET ld(r) == set_register_a(r[2], r[1]) IN ld(read_operand(c, mode))

ldx(c, mode) ==
  LET ld(r) == set_register_x(r[2], r[1]) IN ld(read_operand(c, mode))

ldy(c, mode) ==
  LET ld(r) == set_register_y(r[2], r[1]) IN ld(read_operand(c, mode))

tax(c) == set_register_x(c, c.register_a)

inx(c) == set_register_x(c, Wrap8(c.register_x + 1))

iny(c) == set_register_y(c, Wrap8(c.register_y + 1))

dex(c) == set_register_x(c, Wrap8(c.register_x + 255))

dey(c) == set_register_y(c, Wrap8(c.register_y + 255))

\* STA / STX / STY: write a register to the effective address
store(c, mode, value) ==
  LET st(a) == mem_write(a[2], a[1], value) IN st(get_operand_address(c, mode))

sta(c, mode) == store(c, mode, c.register_a)

and(c, mode) ==
  LET f(r) == set_register_a(r[2], BitAnd(r[1], c.register_a)) IN f(read_operand(c, mode))

eor(c, mode) ==
  LET f(r) == set_register_a(r[2], BitXor(r[1], c.register_a)) IN f(read_operand(c, mode))

ora(c, mode) ==
  LET f(r) == set_register_a(r[2], BitOr(r[1], c.register_a)) IN f(read_operand(c, mode))

\* an SBC that adds the two's complement of the operand, without the borrow
sbc_without_borrow(c, mode) ==
  LET f(r) == add_to_register_a(r[2], Wrap8(256 - r[1]))
  IN f(read_operand(c, mode))

\* ((data as i8).wrapping_neg().wrapping_sub(1)) as u8
sbc(c, mode) ==
  LET f(r) == add_to_register_a(r[2], Wrap8(Wrap8(256 - r[1]) + 255))
  IN f(read_operand(c, mode))

adc(c, mode) ==
  LET f(r) == add_to_register_a(r[2], r[1]) IN f(read_operand(c, mode))

\* the tail shared by the memory-form shifts: write back, then ZERO and NEGATIVE
write_back_zn(c1, addr, data) ==
  update_zero_and_negative_flags(mem_write(c1, addr, data), data)

\* the tail shared by the memory-form rotates: write back, then NEGATIVE
write_back_n(c1, addr, data) ==
  update_negative_flags(mem_write(c1, addr, data), data)

asl_accumulator(c) ==
  set_register_a(carry_from(c, c.register_a \div 128 = 1), Wrap8(c.register_a * 2))

asl(c, mode) ==
  LET f(r) == write_back_zn(carry_from(r[2], r[1] \div 128 = 1), r[3], Wrap8(r[1] * 2))
  IN f(read_operand(c, mode))

lsr_accumulator(c) ==
  set_register_a(carry_from(c, c.register_a % 2 = 1), c.register_a \div 2)

lsr(c, mode) ==
  LET f(r) == write_back_zn(carry_from(r[2], r[1] % 2 = 1), r[3], r[1] \div 2)
  IN f(read_operand(c, mode))

rol(c, mode) ==
  LET f(r) ==
        write_back_n(carry_from(r[2], r[1] \div 128 = 1), r[3],
                     BitOr(Wrap8(r[1] * 2), IF contains(r[2].status, CARRY) THEN 1 ELSE 0))
  IN f(read_operand(c, mode))

rol_accumulator(c) ==
  set_register_a(carry_from(c, c.register_a \div 128 = 1),
                 BitOr(Wrap8(c.register_a * 2), IF contains(c.status, CARRY) THEN 1 ELSE 0))

ror(c, mode) ==
  LET f(r) ==
        write_back_n(carry_from(r[2], r[1] % 2 = 1), r[3],
                     BitOr(r[1] \div 2, IF contains(r[2].status, CARRY) THEN 128 ELSE 0))
  IN f(read_operand(c, mode))

ror_accumulator(c) ==
  set_register_a(carry_from(c, c.register_a % 2 = 1),
                 BitOr(c.register_a \div 2, IF contains(c.status, CARRY) THEN 128 ELSE 0))

inc(c, mode) ==
  LET f(r) == write_back_zn(r[2], r[3], Wrap8(r[1] + 1)) IN f(read_operand(c, mode))

dec(c, mode) ==
  LET f(r) == write_back_zn(r[2], r[3], Wrap8(r[1] + 255)) IN f(read_operand(c, mode))

\* a BIT that takes NEGATIVE and OVERFLOW from A and M instead of from M
bit_flags_of_conjunction(c, mode) ==
  LET f(r) ==
        [r[2] EXCEPT !.status =
           set(set(set(r[2].status, ZERO, BitAnd(r[2].register_a, r[1]) = 0),
                   NEGATIV, BitAnd(BitAnd(r[2].register_a, r[1]), 128) > 0),
               OVERFLOW, BitAnd(BitAnd(r[2].register_a, r[1]), 64) > 0)]
  IN f(read_operand(c, mode))

bit(c, mode) ==
  LET f(r) ==
        [r[2] EXCEPT !.status =
           set(set(set(r[2].status, ZERO, BitAnd(r[2].register_a, r[1]) = 0),
                   NEGATIV, BitAnd(r[1], 128) > 0),
               OVERFLOW, BitAnd(r[1], 64) > 0)]
  IN f(read_operand(c, mode))

\* a pull that loads the popped byte as it is
pull_status_verbatim(r) == [r[2] EXCEPT !.status = r[1]]

\* status.bits = popped byte; remove(BREAK); insert(BREAK2)
pull_status(r) == [r[2] EXCEPT !.status = insert(remove(r[1], BREAK), BREAK2)]

plp(c) == pull_status(stack_pop(c))

\* a PHP that pushes the live status byte
php_pushes_live_status(c) == stack_push(c, c.status)

php(c) == stack_push(c, insert(insert(c.status, BREAK), BREAK2))

pla(c) == LET f(r) == set_register_a(r[2], r[1]) IN f(stack_pop(c))

compare(c, mode, compare_with) ==
  LET f(r) == update_zero_and_negative_flags(carry_from(r[2], r[1] <= compare_with),
                                             Wrap8(compare_with + 256 - r[1]))
  IN f(read_operand(c, mode))

\* CPU::branch that tests the page of the opcode's operand instead of the
\* page of the following instruction
branch_page_of_operand(c, condition) ==
  IF ~condition
  THEN [taken |-> FALSE, page_crossed |-> FALSE, cpu |-> c]
  ELSE LET f(jump) ==
             LET base      == Wrap16(c.program_counter + 1)
                 jump_addr == Wrap16(base + SignExt(jump[1]))
             IN [taken |-> TRUE,
                 page_crossed |-> BitAnd(c.program_counter, 65280) # BitAnd(jump_addr, 65280),
                 cpu |-> [jump[2] EXCEPT !.program_counter = jump_addr]]
       IN f(mem_read(c, c.program_counter))

\* CPU::branch: (taken, page_crossed) and the CPU afterwards
branch(c, condition) ==
  IF ~condition
  THEN [taken |-> FALSE, page_crossed |-> FALSE, cpu |-> c]
  ELSE LET f(jump) ==
             LET base      == Wrap16(c.program_counter + 1)
                 jump_addr == Wrap16(base + SignExt(jump[1]))
             IN [taken |-> TRUE,
                 page_crossed |-> BitAnd(base, 65280) # BitAnd(jump_addr, 65280),
                 cpu |-> [jump[2] EXCEPT !.program_counter = jump_addr]]
       IN f(mem_read(c, c.program_counter))

\* the flag test of each branch opcode
branch_condition(c, code) ==
  CASE code = 208 -> ~contains(c.status, ZERO)
    [] code = 112 -> contains(c.status, OVERFLOW)
    [] code = 80  -> ~contains(c.status, OVERFLOW)
    [] code = 16  -> ~contains(c.status, NEGATIV)
    [] code = 48  -> contains(c.status, NEGATIV)
    [] code = 240 -> contains(c.status, ZERO)
    [] code = 176 -> contains(c.status, CARRY)
    [] code = 144 -> ~contains(c.status, CARRY)

BranchOps == {208, 112, 80, 16, 48, 240, 176, 144}

(***************************************************************************)
(* Loaders, reset, interrupts                                              *)
(***************************************************************************)
\* memory[start .. start + src.len].copy_from_slice(src)
copy_from_slice(memory, start, src) ==
  LET kept == {a \in DOMAIN memory : a < start \/ a >= start + src.len}
      new  == {start + k : k \in DOMAIN src.bytes}
  IN [a \in kept \cup new |-> IF a \in new THEN src.bytes[a - start] ELSE memory[a]]

\* the Rc<RefCell<NromMapper>> made from a constructed mapper
shared(m, id) ==
  [id |-> id, prg_rom |-> m.prg_rom, chr |-> m.chr, chr_is_ram |-> m.chr_is_ram]

\* load_cartridge that applies the image's mirroring before it validates the PRG
load_cartridge_early_mirroring(c, rom, id) ==
  IF rom.mapper # 0
  THEN [ok |-> FALSE, err |-> <<"UnsupportedMapper", rom.mapper>>, cpu |-> c]
  ELSE LET with_mapper(m) ==
             IF ~m.ok
             THEN [ok |-> FALSE, err |-> m.err,
                   cpu |-> [c EXCEPT !.ppu = set_mirroring(c.ppu, rom.mirroring)]]
             ELSE [ok |-> TRUE, err |-> <<>>,
                   cpu |-> [c EXCEPT !.ppu = set_mapper(set_mirroring(c.ppu, rom.mirroring),
                                                        shared(m, id)),
                                     !.mapper = shared(m, id)]]
       IN with_mapper(NromMapper_new(rom.prg_rom, rom.chr_rom, rom.has_chr_ram))

\* CPU::load_cartridge with `id` the identity of the Rc it allocates
load_cartridge(c, rom, id) ==
  IF rom.mapper # 0
  THEN [ok |-> FALSE, err |-> <<"UnsupportedMapper", rom.mapper>>, cpu |-> c]
  ELSE LET with_mapper(m) ==
             IF ~m.ok
             THEN [ok |-> FALSE, err |-> m.err, cpu |-> c]
             ELSE [ok |-> TRUE, err |-> <<>>,
                   cpu |-> [c EXCEPT !.ppu = set_mapper(set_mirroring(c.ppu, rom.mirroring),
                                                        shared(m, id)),
                                     !.mapper = shared(m, id)]]
       IN with_mapper(NromMapper_new(rom.prg_rom, rom.chr_rom, rom.has_chr_ram))

\* a load_prg_rom that drops the CPU's mapper and leaves the PPU's
load_prg_rom_keeps_ppu_mapper(c, prg_rom) ==
  LET c1 == [c EXCEPT !.mapper = NoMapper]
  IN CASE prg_rom.len = 16384 ->
            [ok |-> TRUE, err |-> <<>>,
             cpu |-> [c1 EXCEPT !.memory =
                        copy_from_slice(copy_from_slice(c.memory, 32768, prg_rom),
                                        49152, prg_rom)]]
       [] prg_rom.len = 32768 ->
            [ok |-> TRUE, err |-> <<>>,
             cpu |-> [c1 EXCEPT !.memory = copy_from_slice(c.memory, 32768, prg_rom)]]
       [] OTHER ->
            [ok |-> FALSE, err |-> <<"InvalidPrgSize", prg_rom.len>>, cpu |-> c1]

load_prg_rom(c, prg_rom) ==
  LET c1 == [c EXCEPT !.mapper = NoMapper, !.ppu = set_mapper(c.ppu, NoMapper)]
  IN CASE prg_rom.len = 16384 ->
            [ok |-> TRUE, err |-> <<>>,
             cpu |-> [c1 EXCEPT !.memory =
                        copy_from_slice(copy_from_slice(c.memory, 32768, prg_rom),
                                        49152, prg_rom)]]
       [] prg_rom.len = 32768 ->
            [ok |-> TRUE, err |-> <<>>,
             cpu |-> [c1 EXCEPT !.memory = copy_from_slice(c.memory, 32768, prg_rom)]]
       [] OTHER ->
            [ok |-> FALSE, err |-> <<"InvalidPrgSize", prg_rom.len>>, cpu |-> c1]

\* self.program_counter = self.mem_read_u16(pos)
load_program_counter(c, pos) ==
  LET with_word(v) == [v[2] EXCEPT !.program_counter = v[1]]
  IN with_word(mem_read_u16(c, pos))

\* reset that reads the vector from the internal bytes, past the mapper
reset_internal_vector(c) ==
  [c EXCEPT !.register_a = 0, !.register_x = 0, !.register_y = 0,
            !.stack_pointer = STACK_RESET,
            !.status = 36,
            !.cycles = 0,
            !.program_counter = Get(c.memory, RESET_VECTOR)
                                + 256 * Get(c.memory, RESET_VECTOR + 1)]

reset(c) ==
  load_program_counter([c EXCEPT !.register_a = 0, !.register_x = 0, !.register_y = 0,
                                 !.stack_pointer = STACK_RESET,
                                 !.status = 36,
                                 !.cycles = 0],
                       RESET_VECTOR)

\* the status byte pushed on interrupt entry, then the push
push_status(c1, break_flag) ==
  stack_push(c1, insert(set(c1.status, BREAK, break_flag), BREAK2))

\* push_interrupt_state that only ever sets BREAK, never clears it
push_interrupt_state_keep_break(c, break_flag) ==
  LET f(c1) == stack_push(c1, insert(IF break_flag THEN insert(c1.status, BREAK)
                                     ELSE c1.status, BREAK2))
  IN f(stack_push_u16(c, c.program_counter))

push_interrupt_state(c, break_flag) ==
  push_status(stack_push_u16(c, c.program_counter), break_flag)

set_interrupt_disable(c) == [c EXCEPT !.status = insert(c.status, INTERRUPT_DISABLE)]

\* push the frame, set INTERRUPT_DISABLE, load PC from the vector
interrupt_entry(c, break_flag, vector) ==
  load_program_counter(set_interrupt_disable(push_interrupt_state(c, break_flag)), vector)

\* an NMI that INTERRUPT_DISABLE masks like an IRQ
trigger_nmi_maskable(c) ==
  IF contains(c.status, INTERRUPT_DISABLE) THEN c
  ELSE interrupt_entry(c, FALSE, NMI_VECTOR)

trigger_nmi(c) == interrupt_entry(c, FALSE, NMI_VECTOR)

\* trigger_irq that pushes the frame before it looks at INTERRUPT_DISABLE
trigger_irq_push_first(c) ==
  IF contains(c.status, INTERRUPT_DISABLE)
  THEN <<FALSE, push_interrupt_state(c, FALSE)>>
  ELSE <<TRUE, interrupt_entry(c, FALSE, IRQ_BRK_VECTOR)>>

\* <<handled, CPU>>
trigger_irq(c) ==
  IF contains(c.status, INTERRUPT_DISABLE)
  THEN <<FALSE, c>>
  ELSE <<TRUE, interrupt_entry(c, FALSE, IRQ_BRK_VECTOR)>>

trigger_brk(c) == interrupt_entry(c, TRUE, IRQ_BRK_VECTOR)

(***************************************************************************)
(* The interpreter loop.  `oc` says whether the build checks integer       *)
(* overflow: the plain `+` and `+=` on the u16 program counter panic when  *)
(* it does and wrap when it does not.                                      *)
(***************************************************************************)
Next_(c, extra) == [kind |-> "next", cpu |-> c, extra |-> extra]

Panic_(c) == [kind |-> "panic", cpu |-> c, extra |-> 0]

\* a JMP arm that leaves the program counter on its operand
jmp_absolute_falls_through(c) == c

\* the bodies that assign the program counter
jmp_absolute(c) == load_program_counter(c, c.program_counter)

\* the word whose low byte is at mem_address and whose high byte is at the
\* start of the same page
mem_read_page_wrapped(c1, mem_address) ==
  LET with_lo(lo) ==
        LET with_hi(hi) == <<Word(lo[1], hi[1]), hi[2]>>
        IN with_hi(mem_read(lo[2], BitAnd(mem_address, 65280)))
  IN with_lo(mem_read(c1, mem_address))

\* a JMP (indirect) that always reads the high byte from the next address
jmp_indirect_next_address(c) ==
  LET with_address(mem_address) ==
        LET with_ref(indirect_ref) == [indirect_ref[2] EXCEPT !.program_counter = indirect_ref[1]]
        IN with_ref(mem_read_u16(mem_address[2], mem_address[1]))
  IN with_address(mem_read_u16(c, c.program_counter))

jmp_indirect(c) ==
  LET with_address(mem_address) ==
        LET with_ref(indirect_ref) == [indirect_ref[2] EXCEPT !.program_counter = indirect_ref[1]]
        IN with_ref(IF BitAnd(mem_address[1], 255) = 255
                    THEN mem_read_page_wrapped(mem_address[2], mem_address[1])
                    ELSE mem_read_u16(mem_address[2], mem_address[1]))
  IN with_address(mem_read_u16(c, c.program_counter))

\* a JSR that pushes the address of the instruction after it
jsr_pushes_following_address(c, oc) ==
  IF oc /\ c.program_counter + 2 > 65535
  THEN Panic_(c)
  ELSE Next_(load_program_counter(stack_push_u16(c, Wrap16(c.program_counter + 2)),
                                  c.program_counter), 0)

jsr(c, oc) ==
  IF oc /\ c.program_counter + 2 > 65535
  THEN Panic_(c)
  ELSE Next_(load_program_counter(stack_push_u16(c, Wrap16(c.program_counter + 2 + 65535)),
                                  c.program_counter), 0)

rts(c, oc) ==
  LET with_pop(r) ==
        IF oc /\ r[1] + 1 > 65535
        THEN Panic_(r[2])
        ELSE Next_([r[2] EXCEPT !.program_counter = Wrap16(r[1] + 1)], 0)
  IN with_pop(stack_pop_u16(c))

\* an RTI that pops the return address before the status byte
rti_pops_pc_first(c) ==
  LET with_pc(r) == pull_status(stack_pop([r[2] EXCEPT !.program_counter = r[1]]))
  IN with_pc(stack_pop_u16(c))

rti(c) ==
  LET with_pc(r) == [r[2] EXCEPT !.program_counter = r[1]]
  IN with_pc(stack_pop_u16(plp(c)))

\* a branch arm of the match: the branch and its extra cycles
branch_arm(c, code) ==
  LET with_branch(b) ==
        Next_(b.cpu, (IF b.taken THEN 1 ELSE 0) + (IF b.page_crossed THEN 1 ELSE 0))
  IN with_branch(branch(c, branch_condition(c, code)))

\* the `match code` of try_run_with_callback
dispatch(c, code, mode, oc) ==
  CASE code \in {169, 165, 181, 173, 189, 185, 161, 177} -> Next_(lda(c, mode), 0)
    [] code \in {133, 149, 141, 157, 153, 129, 145} -> Next_(sta(c, mode), 0)
    [] code = 216 -> Next_([c EXCEPT !.status = remove(c.status, DECIMAL_MODE)], 0)
    [] code = 88  -> Next_([c EXCEPT !.status = remove(c.status, INTERRUPT_DISABLE)], 0)
    [] code = 184 -> Next_([c EXCEPT !.status = remove(c.status, OVERFLOW)], 0)
    [] code = 24  -> Next_(clear_carry_flag(c), 0)
    [] code = 56  -> Next_(set_carry_flag(c), 0)
    [] code = 120 -> Next_(set_interrupt_disable(c), 0)
    [] code = 248 -> Next_([c EXCEPT !.status = insert(c.status, DECIMAL_MODE)], 0)
    [] code = 170 -> Next_(tax(c), 0)
    [] code = 232 -> Next_(inx(c), 0)
    [] code = 0   -> [kind |-> "halt",
                      cpu |-> [c EXCEPT !.cycles = c.cycles + OPCODES_MAP[code].cycles],
                      extra |-> 0]
    [] code = 72  -> Next_(stack_push(c, c.register_a), 0)
    [] code = 104 -> Next_(pla(c), 0)
    [] code = 8   -> Next_(php(c), 0)
    [] code = 40  -> Next_(plp(c), 0)
    [] code = 234 -> Next_(c, 0)
    [] code \in {105, 101, 117, 109, 125, 121, 97, 113} -> Next_(adc(c, mode), 0)
    [] code \in {233, 229, 245, 237, 253, 249, 225, 241} -> Next_(sbc(c, mode), 0)
    [] code \in {41, 37, 53, 45, 61, 57, 33, 49} -> Next_(and(c, mode), 0)
    [] code \in {73, 69, 85, 77, 93, 89, 65, 81} -> Next_(eor(c, mode), 0)
    [] code \in {9, 5, 21, 13, 29, 25, 1, 17} -> Next_(ora(c, mode), 0)
    [] code = 10 -> Next_(asl_accumulator(c), 0)
    [] code \in {6, 22, 14, 30} -> Next_(asl(c, mode), 0)
    [] code = 74 -> Next_(lsr_accumulator(c), 0)
    [] code \in {70, 86, 78, 94} -> Next_(lsr(c, mode), 0)
    [] code = 42 -> Next_(rol_accumulator(c), 0)
    [] code \in {38, 54, 46, 62} -> Next_(rol(c, mode), 0)
    [] code = 106 -> Next_(ror_accumulator(c), 0)
    [] code \in {102, 118, 110, 126} -> Next_(ror(c, mode), 0)
    [] code \in {230, 246, 238, 254} -> Next_(inc(c, mode), 0)
    [] code = 200 -> Next_(iny(c), 0)
    [] code \in {198, 214, 206, 222} -> Next_(dec(c, mode), 0)
    [] code = 202 -> Next_(dex(c), 0)
    [] code = 136 -> Next_(dey(c), 0)
    [] code \in {201, 197, 213, 205, 221, 217, 193, 209} ->
         Next_(compare(c, mode, c.register_a), 0)
    [] code \in {192, 196, 204} -> Next_(compare(c, mode, c.register_y), 0)
    [] code \in {224, 228, 236} -> Next_(compare(c, mode, c.register_x), 0)
    [] code = 76  -> Next_(jmp_absolute(c), 0)
    [] code = 108 -> Next_(jmp_indirect(c), 0)
    [] code = 32  -> jsr(c, oc)
    [] code = 96  -> rts(c, oc)
    [] code = 64  -> Next_(rti(c), 0)
    [] code \in BranchOps -> branch_arm(c, code)
    [] code \in {36, 44} -> Next_(bit(c, mode), 0)
    [] code \in {162, 166, 182, 174, 190} -> Next_(ldx(c, mode), 0)
    [] code \in {160, 164, 180, 172, 188} -> Next_(ldy(c, mode), 0)
    [] code \in {134, 150, 142} -> Next_(store(c, mode, c.register_x), 0)
    [] code \in {132, 148, 140} -> Next_(store(c, mode, c.register_y), 0)
    [] code = 168 -> Next_(set_register_y(c, c.register_a), 0)
    [] code = 186 -> Next_(set_register_x(c, c.stack_pointer), 0)
    [] code = 138 -> Next_(set_register_a(c, c.register_x), 0)
    [] code = 154 -> Next_([c EXCEPT !.stack_pointer = c.register_x], 0)
    [] code = 152 -> Next_(set_register_a(c, c.register_y), 0)
    [] OTHER -> [kind |-> "unsupported", cpu |-> c, extra |-> 0]

\* the advance past the operand bytes after the match
advance_pc(c, program_counter_state, len, oc) ==
  IF program_counter_state = c.program_counter
  THEN IF oc /\ c.program_counter + (len - 1) > 65535
       THEN [panic |-> TRUE, cpu |-> c]
       ELSE [panic |-> FALSE,
             cpu |-> [c EXCEPT !.program_counter = Wrap16(c.program_counter + (len - 1))]]
  ELSE [panic |-> FALSE, cpu |-> c]

\* what one iteration reports: how it ended, the CPU, the opcode byte and its
\* address, the extra cycles charged
StepResult(kind, c, code, opcode_pc, extra) ==
  [kind |-> kind, cpu |-> c, code |-> code, opcode_pc |-> opcode_pc, extra |-> extra]

\* the iteration after the match: advance, then charge the cycles
after_match(d, code, opcode_pc, opcode, extra0, oc) ==
  IF d.kind # "next"
  THEN StepResult(d.kind, d.cpu, code, opcode_pc, 0)
  ELSE LET with_advance(adv) ==
             IF adv.panic
             THEN StepResult("panic", adv.cpu, code, opcode_pc, 0)
             ELSE StepResult("next",
                             [adv.cpu EXCEPT !.cycles =
                                adv.cpu.cycles + opcode.cycles + extra0 + d.extra],
                             code, opcode_pc, extra0 + d.extra)
       IN with_advance(advance_pc(d.cpu, Wrap16(opcode_pc + 1), opcode.len, oc))

\* the iteration from the table lookup to the match
after_fetch(c1, code, opcode_pc, oc) ==
  IF code \notin DOMAIN OPCODES_MAP
  THEN StepResult("unsupported", c1, code, opcode_pc, 0)
  ELSE LET with_penalty(pen) ==
             after_match(dispatch(pen[2], code, OPCODES_MAP[code].mode, oc),
                         code, opcode_pc, OPCODES_MAP[code],
                         IF pen[1] THEN 1 ELSE 0, oc)
       IN with_penalty(IF opcode_has_page_cross_penalty(code)
                       THEN did_page_cross(c1, OPCODES_MAP[code].mode)
                       ELSE <<FALSE, c1>>)

\* one iteration of the loop of try_run_with_callback, up to the callback.
\* kind: "next" (iteration completed), "halt" (return Ok on BRK),
\*       "unsupported" (return Err), "panic" (overflow check failed)
step(c, oc) ==
  LET with_code(fetch) ==
        IF oc /\ c.program_counter + 1 > 65535
        THEN StepResult("panic", fetch[2], fetch[1], c.program_counter, 0)
        ELSE after_fetch([fetch[2] EXCEPT !.program_counter = Wrap16(c.program_counter + 1)],
                         fetch[1], c.program_counter, oc)
  IN with_code(mem_read(c, c.program_counter))

\* CPU::capture_trace_state: <<TraceState, CPU>>
capture_trace_state(c) ==
  LET with_opcode(opcode) ==
        <<[pc |-> c.program_counter,
           opcode |-> opcode[1],
           mnemonic |-> IF opcode[1] \in DOMAIN OPCODES_MAP
                        THEN OPCODES_MAP[opcode[1]].mnemonic ELSE "???",
           register_a |-> c.register_a,
           register_x |-> c.register_x,
           register_y |-> c.register_y,
           status |-> c.status,
           stack_pointer |-> c.stack_pointer],
          opcode[2]>>
  IN with_opcode(mem_read(c, c.program_counter))

(***************************************************************************)
(* Host-side inputs                                                        *)
(***************************************************************************)
\* a byte vector of length len whose non-zero bytes are the given <<index, byte>> pairs
Image(len, pairs) ==
  [len |-> len, bytes |-> [k \in {q[1] : q \in pairs} |-> (CHOOSE q \in pairs : q[1] = k)[2]]]

\* what a test does before driving the CPU: assign the public register
\* fields, then mem_write each <<address, byte>> of t.pokes in order
RECURSIVE poke_all(_, _)
poke_all(c, pokes) ==
  IF pokes = <<>> THEN c
  ELSE poke_all(mem_write(c, Head(pokes)[1], Head(pokes)[2]), Tail(pokes))

host_setup(c, t) ==
  poke_all([c EXCEPT !.program_counter = t.pc,
                     !.register_a = t.a, !.register_x = t.x, !.register_y = t.y,
                     !.status = t.p, !.stack_pointer = t.sp],
           t.pokes)

Case(pc, a, x, y, p, sp, pokes) ==
  [pc |-> pc, a |-> a, x |-> x, y |-> y, p |-> p, sp |-> sp, pokes |-> pokes]

\* the observer passed to try_run_with_callback: the empty closure of run(),
\* or the tracing closure of try_run_with_trace
callback(c, cb) == IF cb = "trace" THEN capture_trace_state(c)[2] ELSE c

(***************************************************************************)
(* State machine                                                           *)
(***************************************************************************)
\* no try_run_with_callback in progress.  Of a call the model keeps whether
\* it is still in its loop (st), its observer (cb), the cycle counter it
\* started from (cycles0), its result, and a record of what happened: the
\* iterations in order (log), the number of observer calls (calls) and the PC
\* and cycle counter each observer call was handed (seen)
Idle ==
  [st |-> "idle", cb |-> "nop", calls |-> 0, result |-> <<>>,
   cycles0 |-> 0, log |-> <<>>, seen |-> <<>>]

Init ==
  /\ cpu = CPU_new
  /\ next_mapper_id = 1
  /\ overflow_checks \in BOOLEAN
  /\ run = Idle
  /\ ev = [op |-> "new"]
  /\ ops = 0

\* the test prelude, right after CPU::new()
HostSetup(t) ==
  /\ ops = 0
  /\ run.st = "idle"
  /\ cpu' = host_setup(cpu, t)
  /\ ev' = [op |-> "setup", pre |-> cpu]
  /\ ops' = ops + 1
  /\ UNCHANGED <<next_mapper_id, overflow_checks, run>>

HostWrite(addr, data) ==
  /\ run.st = "idle"
  /\ cpu' = mem_write(cpu, addr, data)
  /\ ev' = [op |-> "mem_write", pre |-> cpu, addr |-> addr, data |-> data]
  /\ ops' = ops + 1
  /\ UNCHANGED <<next_mapper_id, overflow_checks, run>>

\* the state after a loader returned r
Loaded(r, event) ==
  /\ cpu' = r.cpu
  /\ ev' = [event EXCEPT !.ok = r.ok, !.err = r.err]

LoadCartridge(rom) ==
  /\ run.st = "idle"
  /\ Loaded(load_cartridge(cpu, rom, next_mapper_id),
            [op |-> "load_cartridge", pre |-> cpu, rom |-> rom, ok |-> FALSE, err |-> <<>>])
  /\ next_mapper_id' = IF ev'.ok THEN next_mapper_id + 1 ELSE next_mapper_id
  /\ ops' = ops + 1
  /\ UNCHANGED <<overflow_checks, run>>

LoadPrgRom(prg_rom) ==
  /\ run.st = "idle"
  /\ Loaded(load_prg_rom(cpu, prg_rom),
            [op |-> "load_prg_rom", pre |-> cpu, prg_rom |-> prg_rom,
             ok |-> FALSE, err |-> <<>>])
  /\ ops' = ops + 1
  /\ UNCHANGED <<next_mapper_id, overflow_checks, run>>

\* what an interrupt entry saves: the PC, SP and P it interrupted
Frame(c) ==
  [program_counter |-> c.program_counter, stack_pointer |-> c.stack_pointer,
   status |-> c.status]

\* the interrupt entries no RTI has returned from yet, oldest first
entered_of(e) == IF "entered" \in DOMAIN e THEN e.entered ELSE <<>>

Reset ==
  /\ run.st = "idle"
  /\ cpu' = reset(cpu)
  /\ ev' = [op |-> "reset", pre |-> cpu]
  /\ ops' = ops + 1
  /\ UNCHANGED <<next_mapper_id, overflow_checks, run>>

TriggerNmi ==
  /\ run.st = "idle"
  /\ cpu' = trigger_nmi(cpu)
  /\ ev' = [op |-> "trigger_nmi", pre |-> cpu, handled |-> TRUE,
            entered |-> Append(entered_of(ev), Frame(cpu))]
  /\ ops' = ops + 1
  /\ UNCHANGED <<next_mapper_id, overflow_checks, run>>

\* the state after trigger_irq returned r
IrqReturned(r) ==
  /\ cpu' = r[2]
  /\ ev' = [op |-> "trigger_irq", pre |-> cpu, handled |-> r[1],
            entered |-> IF r[1] THEN Append(entered_of(ev), Frame(cpu))
                        ELSE entered_of(ev)]

TriggerIrq ==
  /\ run.st = "idle"
  /\ IrqReturned(trigger_irq(cpu))
  /\ ops' = ops + 1
  /\ UNCHANGED <<next_mapper_id, overflow_checks, run>>

TriggerBrk ==
  /\ run.st = "idle"
  /\ cpu' = trigger_brk(cpu)
  /\ ev' = [op |-> "trigger_brk", pre |-> cpu, handled |-> TRUE,
            entered |-> Append(entered_of(ev), Frame(cpu))]
  /\ ops' = ops + 1
  /\ UNCHANGED <<next_mapper_id, overflow_checks, run>>

\* the host calls try_run_with_callback (cb = "nop") or try_run_with_trace
RunStart(cb) ==
  /\ run.st = "idle"
  /\ run' = [st |-> "running", cb |-> cb, calls |-> 0, result |-> <<>>,
             cycles0 |-> cpu.cycles, log |-> <<>>, seen |-> <<>>]
  /\ ev' = [op |-> "run", pre |-> cpu, entered |-> entered_of(ev)]
  /\ ops' = ops + 1
  /\ UNCHANGED <<cpu, next_mapper_id, overflow_checks>>

\* the record of one iteration: the CPU it started from, the byte it fetched
\* and how it ended
iteration(r, pre) ==
  [code |-> r.code, opcode_pc |-> r.opcode_pc, kind |-> r.kind, pre |-> pre]

\* the call after an iteration whose BRK return also invokes the observer
run_after_observing_halt(rn, r, pre) ==
  CASE r.kind \in {"next", "halt"} ->
         [rn EXCEPT !.st = IF r.kind = "halt" THEN "idle" ELSE @,
                    !.result = IF r.kind = "halt" THEN <<"Ok">> ELSE @,
                    !.calls = @ + 1,
                    !.log = Append(@, iteration(r, pre)),
                    !.seen = Append(@, [pc |-> r.cpu.program_counter,
                                        cycles |-> r.cpu.cycles])]
    [] r.kind = "unsupported" ->
         [rn EXCEPT !.st = "idle",
                    !.result = <<"UnsupportedOpcode", r.code, r.opcode_pc>>,
                    !.log = Append(@, iteration(r, pre))]
    [] r.kind = "panic" ->
         [rn EXCEPT !.st = "panicked", !.log = Append(@, iteration(r, pre))]

\* the call after an iteration: the loop goes on after callback(self), ends
\* with Ok on BRK and with Err on an unsupported opcode, both before the
\* callback
run_after(rn, r, pre) ==
  CASE r.kind = "next" ->
         [rn EXCEPT !.calls = @ + 1,
                    !.log = Append(@, iteration(r, pre)),
                    !.seen = Append(@, [pc |-> r.cpu.program_counter,
                                        cycles |-> r.cpu.cycles])]
    [] r.kind = "halt" ->
         [rn EXCEPT !.st = "idle", !.result = <<"Ok">>,
                    !.log = Append(@, iteration(r, pre))]
    [] r.kind = "unsupported" ->
         [rn EXCEPT !.st = "idle",
                    !.result = <<"UnsupportedOpcode", r.code, r.opcode_pc>>,
                    !.log = Append(@, iteration(r, pre))]
    [] r.kind = "panic" ->
         [rn EXCEPT !.st = "panicked", !.log = Append(@, iteration(r, pre))]

\* one iteration of the interpreter loop, its callback included
Stepped(r) ==
  /\ cpu' = IF r.kind = "next" THEN callback(r.cpu, run.cb) ELSE r.cpu
  /\ run' = run_after(run, r, cpu)
  /\ ev' = [op |-> "step", pre |-> cpu, kind |-> r.kind, code |-> r.code,
            opcode_pc |-> r.opcode_pc, extra |-> r.extra, after |-> r.cpu,
            entered |-> IF r.kind = "next" /\ r.code = 64 /\ entered_of(ev) # <<>>
                        THEN SubSeq(entered_of(ev), 1, Len(entered_of(ev)) - 1)
                        ELSE entered_of(ev),
            unwound |-> IF r.kind = "next" /\ r.code = 64 /\ entered_of(ev) # <<>>
                        THEN <<entered_of(ev)[Len(entered_of(ev))]>>
                        ELSE <<>>]

Step ==
  /\ run.st = "running"
  /\ Stepped(step(cpu, overflow_checks))
  /\ ops' = ops + 1
  /\ UNCHANGED <<next_mapper_id, overflow_checks>>

\* the host calls current_trace_state between runs
CurrentTraceState ==
  /\ run.st = "idle"
  /\ cpu' = capture_trace_state(cpu)[2]
  /\ ev' = [op |-> "current_trace_state", pre |-> cpu,
            value |-> capture_trace_state(cpu)[1]]
  /\ ops' = ops + 1
  /\ UNCHANGED <<next_mapper_id, overflow_checks, run>>

\* what a pop keeps of the operation right before it
last_push(e) ==
  IF e.op \in {"stack_push", "stack_push_u16"}
  THEN [op |-> e.op, data |-> e.data, sp |-> e.pre.stack_pointer]
  ELSE [op |-> "none", data |-> 0, sp |-> 0]

Pushed(c, event) ==
  /\ cpu' = c
  /\ ev' = event

Popped(r, event) ==
  /\ cpu' = r[2]
  /\ ev' = [event EXCEPT !.value = r[1]]

StackPush(data) ==
  /\ run.st = "idle"
  /\ Pushed(stack_push(cpu, data), [op |-> "stack_push", pre |-> cpu, data |-> data])
  /\ ops' = ops + 1
  /\ UNCHANGED <<next_mapper_id, overflow_checks, run>>

StackPop ==
  /\ run.st = "idle"
  /\ Popped(stack_pop(cpu),
            [op |-> "stack_pop", pre |-> cpu, value |-> 0, before |-> last_push(ev)])
  /\ ops' = ops + 1
  /\ UNCHANGED <<next_mapper_id, overflow_checks, run>>

StackPushU16(data) ==
  /\ run.st = "idle"
  /\ Pushed(stack_push_u16(cpu, data),
            [op |-> "stack_push_u16", pre |-> cpu, data |-> data])
  /\ ops' = ops + 1
  /\ UNCHANGED <<next_mapper_id, overflow_checks, run>>

StackPopU16 ==
  /\ run.st = "idle"
  /\ Popped(stack_pop_u16(cpu),
            [op |-> "stack_pop_u16", pre |-> cpu, value |-> 0, before |-> last_push(ev)])
  /\ ops' = ops + 1
  /\ UNCHANGED <<next_mapper_id, overflow_checks, run>>

\* the helper of the PPU tests: the two writes of PPUADDR that set vram_addr
set_ppu_addr(ppu, addr) ==
  write_register(write_register(ppu, PPU_ADDR, Hi(addr)), PPU_ADDR, Lo(addr))

\* set_ppu_addr followed by a write of PPUDATA, for each <<address, byte>>
RECURSIVE fill_ppu(_, _)
fill_ppu(ppu, fill) ==
  IF fill = <<>> THEN ppu
  ELSE fill_ppu(write_register(set_ppu_addr(ppu, Head(fill)[1]), PPU_DATA, Head(fill)[2]),
                Tail(fill))

\* what a PPU test does first: Ppu::new, the status field assigned, PPUCTRL
\* written, memory filled, one read of PPUDATA at t.prime, which loads
\* read_buffer, and vram_addr set to t.addr
ppu_setup(t) ==
  LET primed(r) == set_ppu_addr(r[2], t.addr)
      filled(ppu) == primed(read_register(set_ppu_addr(ppu, t.prime), PPU_DATA))
  IN filled(fill_ppu(write_register([Ppu_new(t.mirroring) EXCEPT !.status = t.status],
                                    PPU_CTRL, t.ctrl),
                     t.fill))

\* the PPU before a run of consecutive PPUDATA reads, and the bytes they returned
Burst(ppu, values) == [ppu |-> ppu, values |-> values]

PpuChanged(ppu, event) ==
  /\ cpu' = [cpu EXCEPT !.ppu = ppu]
  /\ ev' = [event EXCEPT !.burst = Burst(ppu, <<>>)]

PpuReturned(r, event) ==
  /\ cpu' = [cpu EXCEPT !.ppu = r[2]]
  /\ ev' = [event EXCEPT !.value = r[1],
                         !.burst = IF event.reg = PPU_DATA
                                   THEN Burst(ev.burst.ppu, Append(ev.burst.values, r[1]))
                                   ELSE Burst(r[2], <<>>)]

\* one register access: a write with its byte, or a read
Written(reg, data) == [rw |-> "w", reg |-> reg, data |-> data]
Read_(reg) == [rw |-> "r", reg |-> reg, data |-> 0]

\* the register accesses set_ppu_addr, fill_ppu and ppu_setup make, in order
set_ppu_addr_accesses(addr) == <<Written(PPU_ADDR, Hi(addr)), Written(PPU_ADDR, Lo(addr))>>

RECURSIVE fill_ppu_accesses(_)
fill_ppu_accesses(fill) ==
  IF fill = <<>> THEN <<>>
  ELSE set_ppu_addr_accesses(Head(fill)[1]) \o <<Written(PPU_DATA, Head(fill)[2])>>
         \o fill_ppu_accesses(Tail(fill))

ppu_setup_accesses(t) ==
  <<Written(PPU_CTRL, t.ctrl)>> \o fill_ppu_accesses(t.fill)
    \o set_ppu_addr_accesses(t.prime) \o <<Read_(PPU_DATA)>> \o set_ppu_addr_accesses(t.addr)

\* the register accesses made since the PPU was created
accesses_of(e) == IF "accesses" \in DOMAIN e THEN e.accesses ELSE <<>>

\* Ppu::new(mirroring) in place of the PPU the CPU was built with
PpuNew(mirroring) ==
  /\ ops = 0
  /\ run.st = "idle"
  /\ cpu' = [cpu EXCEPT !.ppu = Ppu_new(mirroring)]
  /\ ev' = [op |-> "ppu_new", pre |-> cpu, burst |-> Burst(Ppu_new(mirroring), <<>>),
            accesses |-> <<>>]
  /\ ops' = ops + 1
  /\ UNCHANGED <<next_mapper_id, overflow_checks, run>>

PpuSetup(t) ==
  /\ ops = 0
  /\ run.st = "idle"
  /\ PpuChanged(ppu_setup(t), [op |-> "ppu_setup", pre |-> cpu, burst |-> <<>>,
                               accesses |-> ppu_setup_accesses(t)])
  /\ ops' = ops + 1
  /\ UNCHANGED <<next_mapper_id, overflow_checks, run>>

PpuWrite(reg, data) ==
  /\ ops > 0
  /\ PpuChanged(write_register(cpu.ppu, reg, data),
                [op |-> "write_register", pre |-> cpu, reg |-> reg, data |-> data,
                 burst |-> <<>>,
                 accesses |-> Append(accesses_of(ev), Written(reg, data))])
  /\ ops' = ops + 1
  /\ UNCHANGED <<next_mapper_id, overflow_checks, run>>

PpuRead(reg) ==
  /\ ops > 0
  /\ PpuReturned(read_register(cpu.ppu, reg),
                 [op |-> "read_register", pre |-> cpu, reg |-> reg, value |-> 0,
                  burst |-> <<>>,
                  accesses |-> Append(accesses_of(ev), Read_(reg))])
  /\ ops' = ops + 1
  /\ UNCHANGED <<next_mapper_id, overflow_checks, run>>

\* the byte last written to $4015 by a sequence of writes, or before it
RECURSIVE last_status(_, _)
last_status(before, pokes) ==
  IF pokes = <<>> THEN before
  ELSE last_status(IF Head(pokes)[1] = 16405 THEN <<Head(pokes)[2]>> ELSE before,
                   Tail(pokes))

\* the byte last written to $4015 that an operation's record carries
apu_status_of(e) == IF "apu_status" \in DOMAIN e THEN e.apu_status ELSE <<>>

\* the test prelude of the bus tests: CPU::new() and a sequence of mem_write
BusSetup(t) ==
  /\ ops = 0
  /\ run.st = "idle"
  /\ cpu' = host_setup(cpu, t)
  /\ ev' = [op |-> "bus_setup", pre |-> cpu, apu_status |-> last_status(<<>>, t.pokes)]
  /\ ops' = ops + 1
  /\ UNCHANGED <<next_mapper_id, overflow_checks, run>>

BusRead(addr) ==
  /\ ops > 0
  /\ run.st = "idle"
  /\ cpu' = mem_read(cpu, addr)[2]
  /\ ev' = [op |-> "bus_read", pre |-> cpu, addr |-> addr,
            value |-> mem_read(cpu, addr)[1], apu_status |-> apu_status_of(ev)]
  /\ ops' = ops + 1
  /\ UNCHANGED <<next_mapper_id, overflow_checks, run>>

BusWrite(addr, data) ==
  /\ ops > 0
  /\ run.st = "idle"
  /\ cpu' = mem_write(cpu, addr, data)
  /\ ev' = [op |-> "bus_write", pre |-> cpu, addr |-> addr, data |-> data,
            apu_status |-> last_status(apu_status_of(ev), <<<<addr, data>>>>)]
  /\ ops' = ops + 1
  /\ UNCHANGED <<next_mapper_id, overflow_checks, run>>

BusReadU16(pos) ==
  /\ ops > 0
  /\ run.st = "idle"
  /\ cpu' = mem_read_u16(cpu, pos)[2]
  /\ ev' = [op |-> "bus_read_u16", pre |-> cpu, addr |-> pos,
            value |-> mem_read_u16(cpu, pos)[1], apu_status |-> apu_status_of(ev)]
  /\ ops' = ops + 1
  /\ UNCHANGED <<next_mapper_id, overflow_checks, run>>

BusWriteU16(pos, data) ==
  /\ ops > 0
  /\ run.st = "idle"
  /\ cpu' = mem_write_u16(cpu, pos, data)
  /\ ev' = [op |-> "bus_write_u16", pre |-> cpu, addr |-> pos, data |-> data,
            apu_status |-> last_status(apu_status_of(ev),
                                       <<<<pos, data % 256>>,
                                         <<(pos + 1) % 65536, data \div 256>>>>)]
  /\ ops' = ops + 1
  /\ UNCHANGED <<next_mapper_id, overflow_checks, run>>

\* the CHR writes since the cartridge was loaded, address |-> last value
chr_written_of(e) == IF "chr_written" \in DOMAIN e THEN e.chr_written ELSE <<>>

\* ppu_write on the mapper the CPU and the PPU share
MapperPpuWrite(addr, data) ==
  /\ ops > 0
  /\ run.st = "idle"
  /\ IsSome(cpu.mapper)
  /\ LET wrote(r) ==
           /\ cpu' = [cpu EXCEPT !.mapper = r[2], !.ppu = set_mapper(@, r[2])]
           /\ ev' = [op |-> "ppu_write", pre |-> cpu, addr |-> addr, data |-> data,
                     ok |-> r[1],
                     chr_written |-> IF addr <= 8191
                                     THEN (addr :> data) @@ chr_written_of(ev)
                                     ELSE chr_written_of(ev)]
     IN wrote(ppu_write(cpu.mapper, addr, data))
  /\ ops' = ops + 1
  /\ UNCHANGED <<next_mapper_id, overflow_checks, run>>

\* ppu_read on the shared mapper; an index panic ends the program
MapperPpuRead(addr) ==
  /\ ops > 0
  /\ run.st = "idle"
  /\ IsSome(cpu.mapper)
  /\ LET read(r) ==
           /\ ev' = [op |-> "ppu_read", pre |-> cpu, addr |-> addr, result |-> r,
                     chr_written |-> chr_written_of(ev)]
           /\ run' = IF r.kind = "panic" THEN [run EXCEPT !.st = "panicked"] ELSE run
     IN read(ppu_read(cpu.mapper, addr))
  /\ ops' = ops + 1
  /\ UNCHANGED <<cpu, next_mapper_id, overflow_checks>>

\* the start of a program: its bytes written with mem_write, then reset()
ResetSetup(t) ==
  /\ ops = 0
  /\ run.st = "idle"
  /\ cpu' = reset(poke_all(cpu, t.pokes))
  /\ ev' = [op |-> "reset", pre |-> cpu]
  /\ ops' = ops + 1
  /\ UNCHANGED <<next_mapper_id, overflow_checks, run>>

(***************************************************************************)
(* Bounds and input sets                                                   *)
(***************************************************************************)
MaxLoadOps   == 5
MaxIntOps    == 3
MaxBranchOps == 3
MaxShiftOps  == 3
MaxStepOps   == 4
MaxStackOps  == 3
MaxAccOps    == 3
MaxPpuOps    == 4
MaxMirrorOps == 2
MaxBusOps    == 3
MaxPrgOps    == 2
MaxRomOps    == 4
MaxChrOps    == 4
MaxPcOps     == 3
MaxJsrOps    == 6
MaxAdcOps    == 3
MaxStatusOps == 3
MaxBitOps    == 3
MaxJmpOps    == 3
MaxLatchOps  == 6
MaxBreakOps  == 6
MaxRtiOps    == 7
MaxTraceOps  == 5

Prg16 == Image(16384, {<<0, 17>>, <<16380, 52>>, <<16381, 18>>, <<16383, 34>>})
Prg32 == Image(32768, {<<0, 51>>, <<16384, 68>>, <<32764, 120>>, <<32765, 86>>})
PrgShort == Image(8192, {<<0, 85>>})
PrgEmpty == Image(0, {})
PrgLong  == Image(32769, {<<32768, 9>>})

PrgImages == {Prg16, Prg32, PrgShort, PrgEmpty, PrgLong}

Chr8 == Image(8192, {<<16, 171>>})

Rom(prg, mapper, mirroring, has_chr_ram) ==
  [prg_rom |-> prg, chr_rom |-> Chr8, mapper |-> mapper,
   mirroring |-> mirroring, has_chr_ram |-> has_chr_ram]

Roms ==
  {Rom(Prg16, 0, "Horizontal", FALSE), Rom(Prg32, 0, "Vertical", TRUE),
   Rom(Prg16, 1, "Vertical", FALSE),   Rom(Prg32, 4, "FourScreen", TRUE),
   Rom(PrgShort, 0, "Vertical", FALSE), Rom(PrgLong, 0, "FourScreen", TRUE),
   Rom(PrgEmpty, 0, "Vertical", FALSE)}

\* registers and a few bytes (reset vector, a PRG-range byte) set before the loads
LoadCases ==
  {Case(4660, 1, 2, 3, p, sp, <<<<65532, 205>>, <<65533, 171>>, <<32768, 153>>>>) :
     p \in {0, 255}, sp \in {253, 0}}

LoadWrites == {<<65532, 1>>, <<32768, 2>>, <<16, 3>>}

NextLoad ==
  \/ ops = 0 /\ \E t \in LoadCases : HostSetup(t)
  \/ ops < MaxLoadOps /\ \E rom \in Roms : LoadCartridge(rom)
  \/ ops < MaxLoadOps /\ \E prg \in PrgImages : LoadPrgRom(prg)
  \/ ops < MaxLoadOps /\ \E w \in LoadWrites : HostWrite(w[1], w[2])
  \/ ops < MaxLoadOps /\ Reset
  \/ ops < MaxLoadOps /\ \E cb \in {"nop"} : RunStart(cb)
  \/ ops < MaxLoadOps /\ Step

SpecLoad == Init /\ [][NextLoad]_vars

\* interrupt entry from a spread of PC, P and SP values, vectors in RAM
IntCases ==
  {Case(pc, 1, 2, 3, p, sp,
        <<<<65530, 103>>, <<65531, 69>>, <<65534, 33>>, <<65535, 67>>>>) :
     pc \in {4660, 65535, 255}, p \in {0, 4, 16, 36, 251, 255}, sp \in {253, 0, 1, 2}}

NextInt ==
  \/ ops = 0 /\ \E t \in IntCases : HostSetup(t)
  \/ ops < MaxIntOps /\ \E rom \in {Rom(Prg16, 0, "Horizontal", FALSE)} : LoadCartridge(rom)
  \/ ops < MaxIntOps /\ TriggerNmi
  \/ ops < MaxIntOps /\ TriggerIrq
  \/ ops < MaxIntOps /\ TriggerBrk

SpecInt == Init /\ [][NextInt]_vars

\* a program of up to three bytes at pc
Program(pc, b0, b1, b2) ==
  <<<<pc, b0>>, <<Wrap16(pc + 1), b1>>, <<Wrap16(pc + 2), b2>>>>

\* every branch opcode with every offset, its flag clear and set, in the
\* middle of a page, with the operand in the last byte of a page and with the
\* operand in the last byte of the address space
BranchCases ==
  {Case(pc, 1, 2, 3, p, 253, Program(pc, code, offset, 234)) :
     pc \in {1536, 1790, 65534}, p \in {36, 231}, code \in BranchOps, offset \in 0..255}

NextBranch ==
  \/ ops = 0 /\ \E t \in BranchCases : HostSetup(t)
  \/ ops < MaxBranchOps /\ \E cb \in {"nop"} : RunStart(cb)
  \/ ops < MaxBranchOps /\ Step

SpecBranch == Init /\ [][NextBranch]_vars

\* the memory forms of ASL, LSR, ROL, ROR (zero page; zero page,X; absolute;
\* absolute,X)
ShiftOps == {6, 22, 14, 30, 70, 86, 78, 94, 38, 54, 46, 62, 102, 118, 110, 126}

\* every memory-form shift and rotate on every operand byte, with carry, ZERO
\* and NEGATIVE clear and set beforehand; the operand bytes $10 $02 with X = 4
\* address $0010, $0014, $0210 and $0214
ShiftCases ==
  {Case(1536, 1, 4, 3, p, 253,
        Program(1536, code, 16, 2) \o
        <<<<16, b>>, <<20, b>>, <<528, b>>, <<532, b>>>>) :
     p \in {36, 37, 166, 167}, code \in ShiftOps, b \in 0..255}

NextShift ==
  \/ ops = 0 /\ \E t \in ShiftCases : HostSetup(t)
  \/ ops < MaxShiftOps /\ \E cb \in {"nop"} : RunStart(cb)
  \/ ops < MaxShiftOps /\ Step

SpecShift == Init /\ [][NextShift]_vars

\* every opcode byte, in page 6 and at the top of the address space, followed
\* by operand bytes that name the next address ($0601), a zero-page pointer to
\* it ($0010), the last byte of a page ($02FF), a zero-page pointer
\* ($0020) to the last bytes of a page ($02FE), and the start of page 6 ($0600)
StepCases ==
  {Case(pc, 129, 4, 3, p, 253,
        Program(pc, code, operand[1], operand[2]) \o
        <<<<16, 1>>, <<17, 6>>, <<32, 254>>, <<33, 2>>,
          <<767, 52>>, <<512, 18>>, <<768, 86>>>>) :
     pc \in {1536, 65533}, p \in {36, 231}, code \in 0..255,
     operand \in {<<1, 6>>, <<16, 0>>, <<255, 2>>, <<32, 0>>, <<0, 6>>}}

NextStep ==
  \/ ops = 0 /\ \E t \in StepCases : HostSetup(t)
  \/ ops < MaxStepOps /\ \E cb \in {"nop", "trace"} : RunStart(cb)
  \/ ops < MaxStepOps /\ Step

SpecStep == Init /\ [][NextStep]_vars

\* every stack pointer; bytes and words whose halves differ, with every bit
\* clear and every bit set among them
StackCases == {Case(1536, 1, 2, 3, 36, sp, <<>>) : sp \in 0..255}
StackBytes == {0, 1, 128, 255}
StackWords == {255, 65280, 4660, 32769}

NextStack ==
  \/ ops = 0 /\ \E t \in StackCases : HostSetup(t)
  \/ ops < MaxStackOps /\ \E data \in StackBytes : StackPush(data)
  \/ ops < MaxStackOps /\ StackPop
  \/ ops < MaxStackOps /\ \E data \in StackWords : StackPushU16(data)
  \/ ops < MaxStackOps /\ StackPopU16

SpecStack == Init /\ [][NextStack]_vars

\* the match arms that write A
LdaOps == {169, 165, 181, 173, 189, 185, 161, 177}
AdcOps == {105, 101, 117, 109, 125, 121, 97, 113}
SbcOps == {233, 229, 245, 237, 253, 249, 225, 241}
AndOps == {41, 37, 53, 45, 61, 57, 33, 49}
EorOps == {73, 69, 85, 77, 93, 89, 65, 81}
OraOps == {9, 5, 21, 13, 29, 25, 1, 17}
AccumulatorShiftOps == {10, 74, 42, 106}
AccOps ==
  LdaOps \cup AdcOps \cup SbcOps \cup AndOps \cup EorOps \cup OraOps
    \cup AccumulatorShiftOps \cup {104, 138, 152}

AccBytes == {0, 1, 2, 63, 64, 65, 85, 126, 127, 128, 129, 170, 191, 192, 254, 255}
AccRegisters == {0, 1, 64, 85, 127, 128, 129, 255}

\* an A-writing instruction at $0600 whose operand byte is m in every
\* addressing mode: the immediate byte itself; $0010, $0014 (X = 4), $0210,
\* $0214 and $0213 (Y = 3) for the direct modes; $0300 and $0303 through the
\* pointers at $0014 and $0010 for the indirect ones; the top of the stack for
\* PLA; X for TXA and Y for TYA
AccCase(code, a, m, p) ==
  Case(1536, a, IF code = 138 THEN m ELSE 4, IF code = 152 THEN m ELSE 3, p, 253,
       Program(1536, code, IF OPCODES_MAP[code].mode = "Immediate" THEN m ELSE 16, 2) \o
       (IF OPCODES_MAP[code].mode \in {"Indirect_X", "Indirect_Y"}
        THEN <<<<16, 0>>, <<17, 3>>, <<20, 0>>, <<21, 3>>, <<768, m>>, <<771, m>>>>
        ELSE <<<<16, m>>, <<20, m>>, <<528, m>>, <<532, m>>, <<531, m>>, <<510, m>>>>))

AccCases ==
  {AccCase(code, a, m, p) :
     code \in AccOps, a \in AccRegisters, m \in AccBytes, p \in {36, 231}}

NextAcc ==
  \/ ops = 0 /\ \E t \in AccCases : HostSetup(t)
  \/ ops < MaxAccOps /\ \E cb \in {"nop"} : RunStart(cb)
  \/ ops < MaxAccOps /\ Step

SpecAcc == Init /\ [][NextAcc]_vars

PpuCase(mirroring, ctrl, status, fill, prime, addr) ==
  [mirroring |-> mirroring, ctrl |-> ctrl, status |-> status, fill |-> fill,
   prime |-> prime, addr |-> addr]

\* distinct bytes at a and at the addresses PPUDATA reaches from it in steps
\* of 1 and of 32, and in the nametable byte $1000 below it
FillAround(a) ==
  <<<<a, 17>>, <<(a + 1) % 16384, 34>>, <<(a + 32) % 16384, 68>>,
    <<(a + 12288) % 16384, 102>>>>

\* pattern tables, the first and last byte of each nametable, the mirror of
\* the nametables at $3000, the last addresses below the palette, and palette
\* addresses with their aliases and repeats
PpuAddrs ==
  {0, 8191, 8192, 9215, 9216, 10240, 11264, 12287, 12288, 16095, 16126,
   16128, 16132, 16144, 16145, 16156, 16160, 16368, 16383}

PpuCases ==
  {PpuCase(m, ctrl, status, FillAround(a), (a + 32) % 16384, a) :
     m \in {"Horizontal", "Vertical"}, ctrl \in {0, 4}, status \in {159, 96},
     a \in PpuAddrs}

NextPpu ==
  \/ ops = 0 /\ \E t \in PpuCases : PpuSetup(t)
  \/ ops < MaxPpuOps /\ \E w \in {<<PPU_DATA, 90>>, <<PPU_ADDR, 33>>, <<PPU_SCROLL, 1>>} :
                          PpuWrite(w[1], w[2])
  \/ ops < MaxPpuOps /\ \E reg \in {PPU_STATUS, PPU_DATA} : PpuRead(reg)

SpecPpu == Init /\ [][NextPpu]_vars

\* the nametable (0..3) and the offset in it that an address of $2000-$3EFF
\* names, and the address of offset k in nametable t
TableOf(addr) == ((addr - 8192) % 4096) \div 1024
OffsetOf(addr) == (addr - 8192) % 1024
InTable(t, k) == 8192 + t * 1024 + k

NametableAddrs == 8192..16127

\* every mirroring and every address of $2000-$3EFF, with the nametable
\* beside the addressed one and the nametable below or above it holding
\* different bytes at the same offset
MirrorCase(m, a) ==
  PpuCase(m, 0, 0,
          <<<<InTable(IF TableOf(a) % 2 = 0 THEN TableOf(a) + 1 ELSE TableOf(a) - 1,
                      OffsetOf(a)), 17>>,
            <<InTable((TableOf(a) + 2) % 4, OffsetOf(a)), 34>>>>,
          0, a)

MirrorCases == {MirrorCase(m, a) : m \in Mirrorings, a \in NametableAddrs}

NextMirror ==
  \/ ops = 0 /\ \E t \in MirrorCases : PpuSetup(t)
  \/ ops < MaxMirrorOps /\ \E data \in {90} : PpuWrite(PPU_DATA, data)
  \/ ops < MaxMirrorOps /\ \E reg \in {PPU_DATA} : PpuRead(reg)

SpecMirror == Init /\ [][NextMirror]_vars

\* RAM bytes around $0010, $07FF and the two ends of the address space; the
\* PPU with CTRL written, two bytes stored from address a and the address set
\* to a again, OAM written, and, in half of the cases, the scroll latch set;
\* $4015 written
BusCases ==
  {Case(1536, 1, 2, 3, 36, 253,
        <<<<0, 171>>, <<16, 52>>, <<17, 18>>, <<2047, 119>>, <<65535, 205>>,
          <<8192, ctrl>>, <<8198, a \div 256>>, <<8198, a % 256>>,
          <<8199, 17>>, <<8199, 34>>, <<8198, a \div 256>>, <<8198, a % 256>>,
          <<16405, 90>>>> \o latch) :
     ctrl \in {0, 4}, a \in {8192, 16128},
     latch \in {<<>>, <<<<8195, 7>>, <<8196, 99>>, <<8197, 1>>>>}}

\* an address of each kind of register in the mirrors of the PPU window, APU
\* registers, and RAM
BusReadAddrs == {8200, 16378, 12284, 16383, 12287, 16384, 16405, 16407, 16}

BusWrites ==
  {<<8200, 4>>, <<16377, 30>>, <<8203, 7>>, <<16380, 99>>, <<8205, 1>>,
   <<16382, 33>>, <<16383, 90>>, <<16384, 255>>, <<16405, 31>>, <<16405, 15>>,
   <<16407, 127>>, <<16, 3>>}

NextBus ==
  \/ ops = 0 /\ \E t \in BusCases : BusSetup(t)
  \/ ops < MaxBusOps /\ \E addr \in BusReadAddrs : BusRead(addr)
  \/ ops < MaxBusOps /\ \E w \in BusWrites : BusWrite(w[1], w[2])
  \/ ops < MaxBusOps /\ \E pos \in {16, 2047, 65535} : BusReadU16(pos)
  \/ ops < MaxBusOps /\ \E w \in {<<65535, 4660>>, <<16, 48879>>, <<16404, 10757>>} :
                          BusWriteU16(w[1], w[2])

SpecBus == Init /\ [][NextBus]_vars

\* the loaders alone, after the prelude of LoadCases
NextPrg ==
  \/ ops = 0 /\ \E t \in LoadCases : HostSetup(t)
  \/ ops < MaxPrgOps /\ \E rom \in Roms : LoadCartridge(rom)
  \/ ops < MaxPrgOps /\ \E prg \in PrgImages : LoadPrgRom(prg)

SpecPrg == Init /\ [][NextPrg]_vars

\* the instructions that write memory through an absolute operand (STA, STA
\* abs,X, STA abs,Y, STX, STY, INC, DEC, ASL, ROR) and those that push (PHA,
\* PHP, JSR)
RomWriteOps == {141, 157, 153, 142, 140, 238, 206, 14, 110, 72, 8, 32}

\* one such instruction at $0600 aimed at $8000 or at $FFFF, and internal
\* bytes in $8000-$FFFF that differ from the PRG images
RomCases ==
  {Case(1536, 90, 0, 0, 36, 253,
        Program(1536, code, operand[1], operand[2]) \o
        <<<<32768, 153>>, <<65535, 7>>, <<65532, 205>>>>) :
     code \in RomWriteOps, operand \in {<<0, 128>>, <<255, 255>>}}

NextRom ==
  \/ ops = 0 /\ \E t \in RomCases : HostSetup(t)
  \/ ops < MaxRomOps /\ \E rom \in {Rom(Prg16, 0, "Horizontal", FALSE),
                                    Rom(Prg32, 0, "Vertical", TRUE)} : LoadCartridge(rom)
  \/ ops < MaxRomOps /\ \E w \in {<<32768, 1>>, <<65535, 2>>} : BusWrite(w[1], w[2])
  \/ ops < MaxRomOps /\ \E w \in {<<65535, 4660>>} : BusWriteU16(w[1], w[2])
  \/ ops < MaxRomOps /\ \E cb \in {"nop"} : RunStart(cb)
  \/ ops < MaxRomOps /\ Step

SpecRom == Init /\ [][NextRom]_vars

\* cartridges with an 8 KiB CHR ROM, no CHR ROM, a 4 KiB CHR ROM, and CHR RAM
\* (with and without a CHR ROM image beside it)
ChrShort == Image(4096, {<<16, 205>>})
ChrEmpty == Image(0, {})

ChrRoms ==
  {[Rom(Prg16, 0, "Horizontal", ram) EXCEPT !.chr_rom = chr] :
     ram \in BOOLEAN, chr \in {Chr8, ChrEmpty, ChrShort}}

ChrProbes == {0, 16, 4096, 8191, 8192, 65535}
ChrWrites == {<<a, v>> : a \in {16, 8191, 8192, 65535}, v \in {205, 0}} \cup {<<0, 1>>}

NextChr ==
  \/ ops < MaxChrOps /\ \E rom \in ChrRoms : LoadCartridge(rom)
  \/ ops < MaxChrOps /\ \E w \in ChrWrites : MapperPpuWrite(w[1], w[2])
  \/ ops < MaxChrOps /\ \E a \in ChrProbes : MapperPpuRead(a)

SpecChr == Init /\ [][NextChr]_vars

\* NOP, LDA #, LDA abs, JSR and RTS at the top of the address space and in
\* page 6, with the word on top of the stack $FFFF or $1233
PcOps == {234, 169, 173, 32, 96}

PcCases ==
  {Case(pc, 1, 2, 3, 36, 253,
        Program(pc, code, 52, 18) \o <<<<510, top % 256>>, <<511, top \div 256>>>>) :
     pc \in {65535, 65534, 65533, 1536}, code \in PcOps, top \in {65535, 4659}}

NextPc ==
  \/ ops = 0 /\ \E t \in PcCases : HostSetup(t)
  \/ ops < MaxPcOps /\ \E cb \in {"nop"} : RunStart(cb)
  \/ ops < MaxPcOps /\ Step

SpecPc == Init /\ [][NextPc]_vars

\* subroutines at $0800: RTS alone, PHA PLA RTS (balanced), PHA RTS (one byte
\* left on the stack)
Subroutines == {<<96>>, <<72, 104, 96>>, <<72, 96>>}

\* the bytes of a subroutine placed from `at` on
Placed(body, at) == [i \in 1..Len(body) |-> <<at + i - 1, body[i]>>]

\* JSR $0800 in the middle of a page and with its return address on either
\* side of a page boundary, the stack pointer in the middle of the stack page
\* and where the two pushes wrap it; and JSR to the address of its own operand
JsrCases ==
  {Case(pc, 90, 2, 3, 36, sp, Program(pc, 32, 0, 8) \o Placed(body, 2048)) :
     pc \in {1536, 1789, 1790}, sp \in {253, 1, 0}, body \in Subroutines}
    \cup {Case(pc, 90, 2, 3, 36, 253, Program(pc, 32, (pc + 1) % 256, (pc + 1) \div 256)) :
            pc \in {1536, 1789}}

NextJsr ==
  \/ ops = 0 /\ \E t \in JsrCases : HostSetup(t)
  \/ ops < MaxJsrOps /\ \E cb \in {"nop"} : RunStart(cb)
  \/ ops < MaxJsrOps /\ Step

SpecJsr == Init /\ [][NextJsr]_vars

\* ADC immediate from every accumulator, and ADC in every addressing mode from
\* a few, with CARRY and DECIMAL clear and set
AdcCases ==
  {AccCase(105, a, m, p) : a \in 0..255, m \in AccBytes, p \in {36, 37, 44, 45}}
    \cup {AccCase(code, a, m, p) :
            code \in AdcOps, a \in AccRegisters, m \in AccBytes, p \in {36, 37, 44, 45}}

NextAdc ==
  \/ ops = 0 /\ \E t \in AdcCases : HostSetup(t)
  \/ ops < MaxAdcOps /\ \E cb \in {"nop"} : RunStart(cb)
  \/ ops < MaxAdcOps /\ Step

SpecAdc == Init /\ [][NextAdc]_vars

\* PHP from every status byte, and PLP and RTI of every byte on top of the
\* stack from a few status bytes
StatusCases ==
  {Case(1536, 1, 2, 3, p, 253, Program(1536, 8, 0, 0)) : p \in 0..255}
    \cup {Case(1536, 1, 2, 3, p, 253,
               Program(1536, code, 0, 0) \o <<<<510, b>>, <<511, 52>>, <<256, 18>>>>) :
            code \in {40, 64}, p \in {0, 36, 231, 255}, b \in 0..255}

NextStatus ==
  \/ ops = 0 /\ \E t \in StatusCases : HostSetup(t)
  \/ ops < MaxStatusOps /\ \E cb \in {"nop"} : RunStart(cb)
  \/ ops < MaxStatusOps /\ Step

SpecStatus == Init /\ [][NextStatus]_vars

\* BIT zero page from every accumulator and BIT absolute from a few, with the
\* flags clear and set
BitOps == {36, 44}

BitCases ==
  {AccCase(36, a, m, p) : a \in 0..255, m \in AccBytes, p \in {36, 231}}
    \cup {AccCase(44, a, m, p) : a \in AccRegisters, m \in AccBytes, p \in {36, 231}}

NextBit ==
  \/ ops = 0 /\ \E t \in BitCases : HostSetup(t)
  \/ ops < MaxBitOps /\ \E cb \in {"nop"} : RunStart(cb)
  \/ ops < MaxBitOps /\ Step

SpecBit == Init /\ [][NextBit]_vars

\* JMP (q) with q at the end of a page ($02FF, $00FF, $FFFF), elsewhere
\* ($0300, $02FE) and on its own operand ($0601); the bytes at q, at q + 1
\* and at the start of q's page differ
JmpPointers == {767, 255, 65535, 768, 766, 1537}

JmpCases ==
  {Case(pc, 1, 2, 3, 36, 253,
        <<<<BitAnd(q, 65280), 18>>, <<Wrap16(q + 1), hi>>, <<q, lo>>>> \o
        Program(pc, 108, q % 256, q \div 256)) :
     pc \in {1536, 1792}, q \in JmpPointers, lo \in {52, 1}, hi \in {86, 6}}

NextJmp ==
  \/ ops = 0 /\ \E t \in JmpCases : HostSetup(t)
  \/ ops < MaxJmpOps /\ \E cb \in {"nop"} : RunStart(cb)
  \/ ops < MaxJmpOps /\ Step

SpecJmp == Init /\ [][NextJmp]_vars

\* register writes that reach every bit of the two working addresses, and
\* the reads with side effects, on a PPU just created
LatchWrites ==
  {<<PPU_ADDR, 255>>, <<PPU_ADDR, 18>>, <<PPU_SCROLL, 255>>, <<PPU_CTRL, 7>>,
   <<PPU_DATA, 90>>}

NextLatch ==
  \/ ops = 0 /\ \E m \in {"Horizontal", "Vertical"} : PpuNew(m)
  \/ ops < MaxLatchOps /\ \E w \in LatchWrites : PpuWrite(w[1], w[2])
  \/ ops < MaxLatchOps /\ \E reg \in {PPU_STATUS, PPU_DATA} : PpuRead(reg)

SpecLatch == Init /\ [][NextLatch]_vars

\* every opcode byte at $0600, where the reset vector and both interrupt
\* vectors point, with a byte on top of the stack that has BREAK set and
\* BREAK2 clear, or both set
BreakCases ==
  {Case(0, 0, 0, 0, 36, 253,
        Program(1536, code, 0, 0) \o
        <<<<65532, 0>>, <<65533, 6>>, <<65530, 0>>, <<65531, 6>>, <<65534, 0>>, <<65535, 6>>,
          <<510, b>>, <<511, b>>, <<0, b>>>>) :
     code \in 0..255, b \in {16, 255}}

NextBreak ==
  \/ ops = 0 /\ \E t \in BreakCases : ResetSetup(t)
  \/ ops < MaxBreakOps /\ TriggerNmi
  \/ ops < MaxBreakOps /\ TriggerIrq
  \/ ops < MaxBreakOps /\ TriggerBrk
  \/ ops < MaxBreakOps /\ \E cb \in {"nop"} : RunStart(cb)
  \/ ops < MaxBreakOps /\ Step

SpecBreak == Init /\ [][NextBreak]_vars

\* interrupt entries and returns: a spread of PC, P and SP values, the NMI
\* handler at $0700 a lone RTI, the IRQ/BRK handler at $0710 PHA, PLA, RTI
RtiCases ==
  {Case(pc, 1, 2, 3, p, sp,
        <<<<65530, 0>>, <<65531, 7>>, <<65534, 16>>, <<65535, 7>>,
          <<1792, 64>>, <<1808, 72>>, <<1809, 104>>, <<1810, 64>>>>) :
     pc \in {1536, 65535, 255}, p \in {0, 4, 16, 36, 251, 255}, sp \in {253, 0, 1, 2}}

NextRti ==
  \/ ops = 0 /\ \E t \in RtiCases : HostSetup(t)
  \/ ops < MaxRtiOps /\ TriggerNmi
  \/ ops < MaxRtiOps /\ TriggerIrq
  \/ ops < MaxRtiOps /\ TriggerBrk
  \/ ops < MaxRtiOps /\ \E cb \in {"nop"} : RunStart(cb)
  \/ ops < MaxRtiOps /\ Step

SpecRti == Init /\ [][NextRti]_vars

\* snapshots with PC in RAM, on PPUSTATUS and PPUDATA and their mirrors, on
\* the first APU register and in the zero page; the program at $0600 is a NOP
\* or a jump to PPUDATA
TraceCases ==
  {Case(pc, 1, 2, 3, 36, 253, Program(1536, code, 7, 32)) :
     pc \in {1536, 8194, 8199, 8202, 16383, 16384, 255}, code \in {234, 76}}

\* host writes that set the PPU latches and vram_addr
TraceWrites == {<<8198, 33>>, <<8197, 1>>}

NextTrace ==
  \/ ops = 0 /\ \E t \in TraceCases : HostSetup(t)
  \/ ops < MaxTraceOps /\ \E w \in TraceWrites : HostWrite(w[1], w[2])
  \/ ops < MaxTraceOps /\ CurrentTraceState
  \/ ops < MaxTraceOps /\ \E cb \in {"nop", "trace"} : RunStart(cb)
  \/ ops < MaxTraceOps /\ Step

SpecTrace == Init /\ [][NextTrace]_vars

(***************************************************************************)
(* Properties.  `ev` records the last operation, the CPU before it (pre)   *)
(* and what it returned.                                                   *)
(***************************************************************************)
SameRegisters(c, d) ==
  /\ c.register_a = d.register_a /\ c.register_x = d.register_x
  /\ c.register_y = d.register_y /\ c.status = d.status
  /\ c.program_counter = d.program_counter /\ c.stack_pointer = d.stack_pointer
  /\ c.cycles = d.cycles

PrgProbes == {32768, 49151, 49152, 65532, 65533, 65535}

ValidPrgLen(n) == n \in {16384, 32768}

\* C2: load_prg_rom with a slice whose length is neither 0x4000 nor 0x8000
\* returns Err(InvalidPrgSize(len)) and leaves the CPU unchanged: registers,
\* internal bytes and the mapper handles of CPU and PPU are as before, so every
\* read in $8000-$FFFF returns what it returned before the call.
C2_LoadPrgRomErrorLeavesCpuUnchanged ==
  (ev.op = "load_prg_rom" /\ ~ValidPrgLen(ev.prg_rom.len)) =>
     /\ ~ev.ok
     /\ ev.err = <<"InvalidPrgSize", ev.prg_rom.len>>
     /\ SameRegisters(cpu, ev.pre)
     /\ cpu.memory = ev.pre.memory
     /\ cpu.mapper = ev.pre.mapper
     /\ cpu.ppu.mapper = ev.pre.ppu.mapper
     /\ \A a \in PrgProbes : Peek(cpu, a) = Peek(ev.pre, a)

\* C3: a load_cartridge that returns an error (UnsupportedMapper(id) when
\* rom.mapper != 0, InvalidPrgSize(len) when the PRG length is neither 0x4000
\* nor 0x8000) leaves the mapper handles of CPU and PPU, the PPU mirroring, the
\* registers and the internal bytes as they were before the call.
C3_LoadCartridgeErrorLeavesCpuUnchanged ==
  (ev.op = "load_cartridge" /\ (ev.rom.mapper # 0 \/ ~ValidPrgLen(ev.rom.prg_rom.len))) =>
     /\ ~ev.ok
     /\ ev.err = IF ev.rom.mapper # 0
                 THEN <<"UnsupportedMapper", ev.rom.mapper>>
                 ELSE <<"InvalidPrgSize", ev.rom.prg_rom.len>>
     /\ cpu.mapper = ev.pre.mapper
     /\ cpu.ppu.mapper = ev.pre.ppu.mapper
     /\ cpu.ppu.mirroring = ev.pre.ppu.mirroring
     /\ SameRegisters(cpu, ev.pre)
     /\ cpu.memory = ev.pre.memory
     /\ cpu.ppu = ev.pre.ppu
     /\ cpu.apu = ev.pre.apu

\* a rejected PRG size arrives while an earlier cartridge is installed and the
\* rejected image asks for another mirroring
C3_Witness ==
  /\ ev.op = "load_cartridge"
  /\ ~ev.ok
  /\ ev.err[1] = "InvalidPrgSize"
  /\ IsSome(ev.pre.mapper)
  /\ ev.rom.mirroring # ev.pre.ppu.mirroring
  /\ ev.pre.register_a # 0

\* the byte the bus serves at address a of $8000-$FFFF, from the state's parts
BusByte(c, a) ==
  IF IsSome(c.mapper)
  THEN Get(c.mapper.prg_rom.bytes, (a - 32768) % c.mapper.prg_rom.len)
  ELSE Get(c.memory, a)

\* C9: after reset, from any prior state, A = X = Y = 0, SP = 0xFD,
\* P = 0b0010_0100, cycles = 0 and PC is the little-endian word the bus serves
\* at $FFFC/$FFFD (mapper PRG when a cartridge is loaded, internal bytes
\* otherwise); reset changes no memory byte.
C9_ResetContract ==
  ev.op = "reset" =>
     /\ cpu.register_a = 0 /\ cpu.register_x = 0 /\ cpu.register_y = 0
     /\ cpu.stack_pointer = 253
     /\ cpu.status = 36
     /\ cpu.cycles = 0
     /\ cpu.program_counter = BusByte(ev.pre, 65532) + 256 * BusByte(ev.pre, 65533)
     /\ cpu.memory = ev.pre.memory
     /\ cpu.mapper = ev.pre.mapper
     /\ cpu.ppu = ev.pre.ppu
     /\ cpu.apu = ev.pre.apu

\* reset of a CPU that has run (cycles charged), with registers set and a
\* 16 KiB cartridge loaded over internal bytes that hold another vector
C9_Witness ==
  /\ ev.op = "reset"
  /\ ev.pre.cycles > 0
  /\ ev.pre.register_a # 0
  /\ ev.pre.status # 36
  /\ ev.pre.stack_pointer # 253
  /\ IsSome(ev.pre.mapper)
  /\ Get(ev.pre.memory, 65532) = 205
  /\ cpu.program_counter = 4660

\* the status byte an interrupt entry pushes: P with BREAK2 set and BREAK as given
PushedStatus(p, brk) ==
  (p % 16) + (IF brk THEN 16 ELSE 0) + 32 + 64 * (p \div 64)

IsEntry == ev.op \in {"trigger_nmi", "trigger_brk"} \/ (ev.op = "trigger_irq" /\ ev.handled)

\* C7: trigger_nmi, a handled trigger_irq and trigger_brk each push PC high,
\* PC low, then P with BREAK2 set and BREAK set only for trigger_brk, decrease
\* SP by 3 (wrapping), set INTERRUPT_DISABLE leaving the other bits of P, and
\* load PC from the little-endian word at $FFFA (NMI) or $FFFE (IRQ, BRK).
C7_InterruptFrame ==
  IsEntry =>
    LET pre    == ev.pre
        sp     == pre.stack_pointer
        vector == IF ev.op = "trigger_nmi" THEN 65530 ELSE 65534
    IN /\ Get(cpu.memory, 256 + sp) = pre.program_counter \div 256
       /\ Get(cpu.memory, 256 + ((sp + 255) % 256)) = pre.program_counter % 256
       /\ Get(cpu.memory, 256 + ((sp + 254) % 256)) =
             PushedStatus(pre.status, ev.op = "trigger_brk")
       /\ cpu.stack_pointer = (sp + 253) % 256
       /\ contains(cpu.status, INTERRUPT_DISABLE)
       /\ \A f \in {1, 2, 8, 16, 32, 64, 128} :
             contains(cpu.status, f) = contains(pre.status, f)
       /\ cpu.program_counter = BusByte(pre, vector) + 256 * BusByte(pre, vector + 1)

\* an NMI taken with BREAK set in P and the stack pointer wrapping
C7_Witness ==
  /\ ev.op = "trigger_nmi"
  /\ contains(ev.pre.status, BREAK)
  /\ ~contains(ev.pre.status, INTERRUPT_DISABLE)
  /\ ev.pre.stack_pointer = 1
  /\ cpu.stack_pointer = 254
  /\ cpu.program_counter = 17767

\* C8: trigger_irq with INTERRUPT_DISABLE set returns false and leaves the
\* whole state unchanged; with INTERRUPT_DISABLE clear it returns true.
C8_IrqMasked ==
  ev.op = "trigger_irq" =>
    IF contains(ev.pre.status, INTERRUPT_DISABLE)
    THEN ~ev.handled /\ cpu = ev.pre
    ELSE ev.handled

\* a masked IRQ right after an interrupt entry set INTERRUPT_DISABLE
C8_Witness ==
  /\ ev.op = "trigger_irq"
  /\ ~ev.handled
  /\ contains(cpu.status, INTERRUPT_DISABLE)
  /\ cpu.stack_pointer # 253

\* a completed iteration of the interpreter loop on one of the given opcodes
Completed(codes) == ev.op = "step" /\ ev.kind = "next" /\ ev.code \in codes

\* C1: a fetch at p of a byte with no opcode-table entry returns
\* Err(UnsupportedOpcode{opcode: byte, pc: p}) and leaves program_counter = p
\* and the cycle counter as it was.
C1_UnsupportedOpcodeLeavesPc ==
  (ev.op = "step" /\ ev.kind = "unsupported") =>
     /\ run.result = <<"UnsupportedOpcode", Peek(ev.pre, ev.pre.program_counter),
                       ev.pre.program_counter>>
     /\ cpu.program_counter = ev.pre.program_counter
     /\ cpu.cycles = ev.pre.cycles

\* BPL, BMI, BVC, BVS, BCC, BCS, BNE, BEQ: whether status p satisfies the
\* flag condition of the branch opcode
FlagCondition(code, p) ==
  CASE code = 16  -> (p \div 128) % 2 = 0
    [] code = 48  -> (p \div 128) % 2 = 1
    [] code = 80  -> (p \div 64) % 2 = 0
    [] code = 112 -> (p \div 64) % 2 = 1
    [] code = 144 -> p % 2 = 0
    [] code = 176 -> p % 2 = 1
    [] code = 208 -> (p \div 2) % 2 = 0
    [] code = 240 -> (p \div 2) % 2 = 1

\* the address of the byte following the operand of the branch at ev.opcode_pc
Following == (ev.opcode_pc + 2) % 65536

\* the signed offset of the branch at ev.opcode_pc
Offset == AsI8(Peek(ev.pre, (ev.opcode_pc + 1) % 65536))

\* (address following the operand) + offset, modulo 2^16
BranchTarget == (Following + Offset + 65536) % 65536

\* C4: a branch whose flag condition is true leaves PC = (address of the byte
\* following the operand) + signed offset modulo 2^16, for every offset in
\* -128..127; a branch whose condition is false leaves PC at the byte
\* following the operand.
C4_BranchProgramCounter ==
  Completed(BranchOps) =>
     ev.after.program_counter =
        IF FlagCondition(ev.code, ev.pre.status) THEN BranchTarget ELSE Following

\* the instructions of the match that assign the program counter
JumpOps == {76, 108, 32}
WritesPc == JumpOps \cup BranchOps \cup {96, 64, 0}

\* the CPU at the match: the opcode fetched and PC on the first operand byte
AtMatch == [ev.pre EXCEPT !.program_counter = (ev.opcode_pc + 1) % 65536]

\* the target JMP absolute, JMP indirect or JSR computes from the operand bytes
JumpTarget ==
  CASE ev.code = 76  -> jmp_absolute(AtMatch).program_counter
    [] ev.code = 108 -> jmp_indirect(AtMatch).program_counter
    [] ev.code = 32  -> jsr(AtMatch, FALSE).cpu.program_counter

\* C5: after one step, an instruction that does not write PC leaves
\* PC = opcode address + declared length, and JMP absolute, JMP indirect and
\* JSR leave PC equal to the target they computed, whatever that target is:
\* no operand-length advance is applied on top of a jump target.
C5_ProgramCounterAfterStep ==
  /\ Completed(DOMAIN OPCODES_MAP \ WritesPc) =>
        ev.after.program_counter = (ev.opcode_pc + OPCODES_MAP[ev.code].len) % 65536
  /\ Completed(JumpOps) => ev.after.program_counter = JumpTarget

\* the effective address of the memory-form shift at ev.opcode_pc
ShiftAddress == get_operand_address(AtMatch, OPCODES_MAP[ev.code].mode)[1]

\* the byte at the effective address before the step
ShiftOperand == Get(ev.pre.memory, ShiftAddress)

\* the byte a shift or rotate makes of operand b with carry-in cin
Shifted(code, b, cin) ==
  CASE code \in {6, 22, 14, 30}      -> (b * 2) % 256
    [] code \in {70, 86, 78, 94}     -> b \div 2
    [] code \in {38, 54, 46, 62}     -> ((b * 2) % 256) + cin
    [] code \in {102, 118, 110, 126} -> (b \div 2) + 128 * cin

\* the bit a shift or rotate ejects from operand b
Ejected(code, b) ==
  IF code \in {6, 22, 14, 30, 38, 54, 46, 62} THEN b \div 128 ELSE b % 2

\* C6: each memory-form ASL, LSR, ROL, ROR writes the shifted byte back to
\* the effective address, sets CARRY to the ejected bit, ZERO to
\* (result = 0) and NEGATIVE to bit 7 of the result, for every operand byte
\* and every carry-in.
C6_MemoryShiftFlags ==
  Completed(ShiftOps) =>
     /\ Get(ev.after.memory, ShiftAddress) =
           Shifted(ev.code, ShiftOperand, ev.pre.status % 2)
     /\ ev.after.status % 2 = Ejected(ev.code, ShiftOperand)
     /\ ((ev.after.status \div 2) % 2 = 1) =
           (Shifted(ev.code, ShiftOperand, ev.pre.status % 2) = 0)
     /\ (ev.after.status \div 128) % 2 =
           Shifted(ev.code, ShiftOperand, ev.pre.status % 2) \div 128

\* C10: a branch charges its base cycles when it is not taken, base + 1 when
\* it is taken and the target is in the 256-byte page of the address
\* following the operand, base + 2 when it is taken and the target is in
\* another page.
C10_BranchCycles ==
  Completed(BranchOps) =>
     ev.after.cycles - ev.pre.cycles =
        OPCODES_MAP[ev.code].cycles
        + (CASE ~FlagCondition(ev.code, ev.pre.status) -> 0
             [] FlagCondition(ev.code, ev.pre.status)
                /\ BranchTarget \div 256 = Following \div 256 -> 1
             [] OTHER -> 2)

\* a taken branch from the last two bytes of a page backwards: the address
\* following the operand starts the next page, the target is in the page of
\* the opcode, two extra cycles are charged
C10_Witness ==
  /\ Completed(BranchOps)
  /\ FlagCondition(ev.code, ev.pre.status)
  /\ ev.opcode_pc % 256 = 254
  /\ Offset < 0
  /\ BranchTarget \div 256 = ev.opcode_pc \div 256
  /\ ev.after.cycles = ev.pre.cycles + OPCODES_MAP[ev.code].cycles + 2

\* the byte at address a (modulo 2^16) as iteration e found it
ByteAt(e, a) == Peek(e.pre, a % 65536)

\* the reads that pay for a page crossing: LDA, LDX, LDY, EOR, AND, ORA, ADC,
\* SBC, CMP in absolute,X / absolute,Y / (indirect),Y form
IndexedReadOps ==
  {code \in DOMAIN OPCODES_MAP :
     /\ OPCODES_MAP[code].mnemonic \in
          {"LDA", "LDX", "LDY", "EOR", "AND", "ORA", "ADC", "SBC", "CMP"}
     /\ OPCODES_MAP[code].mode \in {"Absolute_X", "Absolute_Y", "Indirect_Y"}}

\* the base address of an indexed operand: the operand word, or for
\* (indirect),Y the word at the zero-page pointer the operand byte names
BaseAddress(e) ==
  IF OPCODES_MAP[e.code].mode = "Indirect_Y"
  THEN ByteAt(e, ByteAt(e, e.opcode_pc + 1))
       + 256 * ByteAt(e, (ByteAt(e, e.opcode_pc + 1) + 1) % 256)
  ELSE ByteAt(e, e.opcode_pc + 1) + 256 * ByteAt(e, e.opcode_pc + 2)

IndexRegister(e) ==
  IF OPCODES_MAP[e.code].mode = "Absolute_X" THEN e.pre.register_x ELSE e.pre.register_y

\* base and base + index differ in the high byte
PageCrossed(e) ==
  BaseAddress(e) \div 256 # ((BaseAddress(e) + IndexRegister(e)) % 65536) \div 256

\* the extra cycles of a branch: 1 when taken, 2 when taken across a page
BranchPenalty(e) ==
  IF ~FlagCondition(e.code, e.pre.status) THEN 0
  ELSE IF ((e.opcode_pc + 2 + AsI8(ByteAt(e, e.opcode_pc + 1)) + 65536) % 65536) \div 256
          = ((e.opcode_pc + 2) % 65536) \div 256
       THEN 1 ELSE 2

\* base cycles plus penalty of an executed instruction
CyclesDue(e) ==
  OPCODES_MAP[e.code].cycles
  + (CASE e.code \in BranchOps -> BranchPenalty(e)
       [] e.code \in IndexedReadOps /\ PageCrossed(e) -> 1
       [] OTHER -> 0)

RECURSIVE SumCyclesDue(_)
SumCyclesDue(log) ==
  IF log = <<>> THEN 0
  ELSE (IF Head(log).kind \in {"next", "halt"} THEN CyclesDue(Head(log)) ELSE 0)
       + SumCyclesDue(Tail(log))

\* the run has just returned Ok on BRK
EndedOnBrk == ev.op = "step" /\ ev.kind = "halt"

\* C11: when a run of try_run_with_callback ends on BRK, the cycle counter
\* has grown by the sum over the executed instructions, the halting BRK with
\* its 7 base cycles included, of base cycles plus penalty; a non-branch
\* instruction pays 1 exactly when it is an indexed read (LDA, LDX, LDY, EOR,
\* AND, ORA, ADC, SBC, CMP in absolute,X / absolute,Y / (indirect),Y form)
\* whose base and base + index differ in the high byte, and nothing otherwise.
C11_TotalCycles ==
  EndedOnBrk =>
     /\ cpu.cycles = run.cycles0 + SumCyclesDue(run.log)
     /\ CyclesDue(run.log[Len(run.log)]) = 7

\* a run of an indexed read that crosses a page, then the halting BRK
C11_Witness ==
  /\ EndedOnBrk
  /\ Len(run.log) = 2
  /\ run.log[1].code \in IndexedReadOps
  /\ OPCODES_MAP[run.log[1].code].mode = "Indirect_Y"
  /\ PageCrossed(run.log[1])
  /\ cpu.cycles = run.cycles0 + OPCODES_MAP[run.log[1].code].cycles + 1 + 7

\* the iterations of the current or last run that completed an instruction
CompletedIterations == {i \in 1..Len(run.log) : run.log[i].kind = "next"}

\* the address at which the run fetched, or will fetch, after iteration i
NextFetch(i) ==
  IF i < Len(run.log) THEN run.log[i + 1].opcode_pc ELSE cpu.program_counter

\* C12: the observer is called exactly once after each instruction that
\* completes, in execution order, with PC advanced to the next opcode and the
\* cycles charged; it is not called for the BRK that halts the run nor for an
\* unsupported opcode, so n instructions before the halting BRK give n calls.
C12_CallbackPerInstruction ==
  /\ run.calls = Len(run.seen)
  /\ CompletedIterations = 1..Len(run.seen)
  /\ \A i \in 1..Len(run.seen) :
        /\ run.seen[i].pc = NextFetch(i)
        /\ run.seen[i].cycles = run.log[i].pre.cycles + CyclesDue(run.log[i])
  /\ (ev.op = "step" /\ ev.kind \in {"halt", "unsupported"}) =>
        run.calls = Len(run.log) - 1

\* a traced run of one instruction that moves PC by three, then the halting
\* BRK: one observer call, none for the BRK
C12_Witness ==
  /\ EndedOnBrk
  /\ run.cb = "trace"
  /\ Len(run.log) = 2
  /\ run.calls = 1
  /\ run.seen[1].pc = run.log[1].opcode_pc + 3
  /\ run.seen[1].cycles > run.cycles0

\* the byte the last iteration fetched
Fetched == Peek(ev.pre, ev.pre.program_counter)

\* an iteration that was not aborted by an integer-overflow check on PC
Iterated == ev.op = "step" /\ ev.kind # "panic"

\* the call returns from an iteration only on BRK, with Ok, and on a byte
\* without a supported opcode, with the byte and its address
ReturnsOnlyOnBrkOrUnsupported ==
  Iterated =>
     CASE Fetched = 0 -> run.st = "idle" /\ run.result = <<"Ok">>
       [] Fetched \notin DOMAIN OPCODES_MAP ->
            /\ run.st = "idle"
            /\ run.result = <<"UnsupportedOpcode", Fetched, ev.pre.program_counter>>
       [] OTHER -> run.st = "running" /\ run.result = <<>>

\* the call is in its loop with PC on a JMP absolute to its own address
JmpToItself ==
  /\ run.st = "running"
  /\ Peek(cpu, cpu.program_counter) = 76
  /\ Peek(cpu, (cpu.program_counter + 1) % 65536) = cpu.program_counter % 256
  /\ Peek(cpu, (cpu.program_counter + 2) % 65536) = cpu.program_counter \div 256

\* C13: try_run_with_callback goes on executing and returns only in two
\* cases: Ok(()) exactly when the byte fetched at PC is 0x00, and
\* Err(UnsupportedOpcode{opcode, pc}) exactly when the fetched byte is not a
\* supported opcode, pc being its address; a call that is executing a JMP to
\* its own address is executing it again after every step, so it never returns.
C13_ReturnsOnlyOnBrkOrUnsupported ==
  /\ []ReturnsOnlyOnBrkOrUnsupported
  /\ [][JmpToItself => JmpToItself']_vars

\* JMP $0600 at $0600 has been executed twice and is about to be executed again
C13_Witness ==
  /\ JmpToItself
  /\ Len(run.log) = 2
  /\ run.log[1].code = 76 /\ run.log[2].code = 76
  /\ run.log[1].opcode_pc = cpu.program_counter
  /\ run.log[2].opcode_pc = cpu.program_counter
  /\ cpu.cycles = run.cycles0 + 6

\* where stack_push_u16 stores the two halves of its word: the first
\* stack_push writes at STACK + SP, the second at STACK + (SP - 1) mod 256
HighByteAddress(e) == STACK + e.pre.stack_pointer
LowByteAddress(e) == STACK + Wrap8(e.pre.stack_pointer + 255)

PopReturnsPush(op_push, op_pop) ==
  (ev.op = op_pop /\ ev.before.op = op_push)
    => /\ ev.value = ev.before.data
       /\ cpu.stack_pointer = ev.before.sp

\* C14, the statement as written: a push followed by a pop returns what was
\* pushed and restores SP, for bytes and for words and for every SP, and
\* stack_push_u16 leaves the high byte at the higher of the two addresses
C14_HighByteAtHigherAddress ==
  /\ PopReturnsPush("stack_push", "stack_pop")
  /\ PopReturnsPush("stack_push_u16", "stack_pop_u16")
  /\ ev.op = "stack_push_u16"
       => /\ Peek(cpu, HighByteAddress(ev)) = Hi(ev.data)
          /\ Peek(cpu, LowByteAddress(ev)) = Lo(ev.data)
          /\ HighByteAddress(ev) > LowByteAddress(ev)

\* C14: a push followed by a pop returns what was pushed and restores SP, for
\* bytes and for words and for every SP; stack_push_u16 leaves the high byte
\* at $0100 + SP and the low byte at $0100 + ((SP - 1) mod 256), which is the
\* next lower address unless SP = 0, where the low byte is at $01FF
C14_StackRoundTrip ==
  /\ PopReturnsPush("stack_push", "stack_pop")
  /\ PopReturnsPush("stack_push_u16", "stack_pop_u16")
  /\ ev.op = "stack_push_u16"
       => /\ Peek(cpu, HighByteAddress(ev)) = Hi(ev.data)
          /\ Peek(cpu, LowByteAddress(ev)) = Lo(ev.data)
          /\ ev.pre.stack_pointer # 0 => HighByteAddress(ev) = LowByteAddress(ev) + 1
          /\ ev.pre.stack_pointer = 0 => /\ HighByteAddress(ev) = 256
                                         /\ LowByteAddress(ev) = 511

\* a word pushed at SP = 0 and popped again
C14_Witness ==
  /\ ev.op = "stack_pop_u16"
  /\ ev.before = [op |-> "stack_push_u16", data |-> 4660, sp |-> 0]
  /\ ev.value = 4660
  /\ cpu.stack_pointer = 0
  /\ Peek(cpu, 256) = 18
  /\ Peek(cpu, 511) = 52

\* C15: after every instruction that writes A (LDA, TXA, TYA, PLA, ADC, SBC,
\* AND, ORA, EOR and the accumulator forms of ASL, LSR, ROL, ROR), ZERO is set
\* exactly when A is 0 and NEGATIVE exactly when bit 7 of A is set
C15_AccumulatorFlags ==
  Completed(AccOps) =>
     /\ contains(ev.after.status, ZERO) <=> (ev.after.register_a = 0)
     /\ contains(ev.after.status, NEGATIV) <=> (ev.after.register_a \div 128 = 1)

\* ROR A of $01 with carry clear: A becomes 0 and ZERO is raised
C15_Witness ==
  /\ Completed({106})
  /\ ev.pre.register_a = 1
  /\ ~contains(ev.pre.status, ZERO)
  /\ ev.after.register_a = 0
  /\ contains(ev.after.status, ZERO)
  /\ ~contains(ev.after.status, NEGATIV)

\* the address the instruction of the step reads its operand from, and the
\* byte there before the step
EffectiveAddress == get_operand_address(AtMatch, OPCODES_MAP[ev.code].mode)[1]
Operand == Get(ev.pre.memory, EffectiveAddress)

\* the CPU after the ADC of the same addressing mode (opcode - $80), run from
\* the state the SBC ran from with the operand byte M replaced by M xor $FF
AdcTwin ==
  step(mem_write(mem_write(ev.pre, ev.opcode_pc, ev.code - 128),
                 EffectiveAddress, BitXor(Operand, 255)),
       overflow_checks).cpu

SameArithmetic(c, d) ==
  /\ c.register_a = d.register_a
  /\ \A f \in {CARRY, OVERFLOW, ZERO, NEGATIV} : contains(c.status, f) <=> contains(d.status, f)

\* C16: SBC with operand M leaves the A, CARRY, OVERFLOW, ZERO and NEGATIVE
\* that ADC with M xor $FF leaves from the same state, and
\* A' = (A - M - (1 - C)) mod 256
C16_SbcIsAdcOfComplement ==
  Completed(SbcOps) =>
     /\ SameArithmetic(ev.after, AdcTwin)
     /\ ev.after.register_a =
          (512 + ev.pre.register_a - Operand - (1 - (ev.pre.status % 2))) % 256

\* SBC #$01 from A = $00 with carry set: A = $FF, a borrow (carry clear),
\* NEGATIVE set
C16_Witness ==
  /\ Completed({233})
  /\ ev.pre.register_a = 0
  /\ Operand = 1
  /\ contains(ev.pre.status, CARRY)
  /\ ev.after.register_a = 255
  /\ ~contains(ev.after.status, CARRY)
  /\ contains(ev.after.status, NEGATIV)
  /\ AdcTwin.register_a = 255

IsRead(reg) == ev.op = "read_register" /\ ev.reg = reg
IsWrite(reg) == ev.op = "write_register" /\ ev.reg = reg

\* C17: a read of $2002 returns the STATUS held before it, clears bit 7 of
\* STATUS and keeps bits 0-6, clears addr_latch and scroll_latch, and changes
\* nothing else in the PPU
C17_StatusRead ==
  IsRead(PPU_STATUS) =>
     /\ ev.value = ev.pre.ppu.status
     /\ cpu.ppu.status = ev.pre.ppu.status % 128
     /\ ~cpu.ppu.addr_latch
     /\ ~cpu.ppu.scroll_latch
     /\ cpu.ppu = [ev.pre.ppu EXCEPT !.status = cpu.ppu.status,
                                     !.addr_latch = FALSE,
                                     !.scroll_latch = FALSE]

\* STATUS = $9F read with both latches set
C17_Witness ==
  /\ IsRead(PPU_STATUS)
  /\ ev.pre.ppu.addr_latch
  /\ ev.pre.ppu.scroll_latch
  /\ ev.value = 159
  /\ cpu.ppu.status = 31

\* the step CTRL bit 2 selects
AddressStep(ppu) == IF (ppu.ctrl \div 4) % 2 = 1 THEN 32 ELSE 1

\* the address a run of PPUDATA reads starts from
BurstAddress == ev.burst.ppu.vram_addr % 16384

\* the byte PPU memory holds at addr when the run starts; the reads of the
\* run do not change memory
BurstByte(addr) == ppu_mem_read(ev.burst.ppu, addr)

PaletteAddrs == 16128..16383

\* the palette entry the claim assigns to an address of $3F00-$3FFF: the
\* address modulo 32, with $10, $14, $18, $1C folded onto $00, $04, $08, $0C
PaletteEntry(addr) ==
  IF (addr % 32) \in {16, 20, 24, 28} THEN (addr % 32) - 16 ELSE addr % 32

\* C19: a byte written through $2007 at a palette address is read back at
\* exactly the addresses of $3F00-$3FFF that name the same entry, where
\* $3F10/$3F14/$3F18/$3F1C name the entries of $3F00/$3F04/$3F08/$3F0C and
\* the 32 entries repeat up to $3FFF; a read of $2007 at a palette address
\* returns the palette byte at once and reloads read_buffer with the
\* nametable byte $1000 below the address
C19_PaletteMirrors ==
  /\ (IsWrite(PPU_DATA) /\ (ev.pre.ppu.vram_addr % 16384) \in PaletteAddrs) =>
        \A a \in PaletteAddrs :
           ppu_mem_read(cpu.ppu, a) =
             IF PaletteEntry(a) = PaletteEntry(ev.pre.ppu.vram_addr % 16384)
             THEN ev.data
             ELSE ppu_mem_read(ev.pre.ppu, a)
  /\ (IsRead(PPU_DATA) /\ (ev.pre.ppu.vram_addr % 16384) \in PaletteAddrs) =>
        /\ ev.value = Get(ev.pre.ppu.palette_table,
                          PaletteEntry(ev.pre.ppu.vram_addr % 16384))
        /\ cpu.ppu.read_buffer =
             ppu_mem_read(ev.pre.ppu, (ev.pre.ppu.vram_addr % 16384) - 4096)
        /\ cpu.ppu.palette_table = ev.pre.ppu.palette_table
        /\ cpu.ppu.vram = ev.pre.ppu.vram

\* a read of $2007 at $3F10 returns the byte written through $3F30, held in
\* the entry of $3F00, and not the buffer, which takes the byte of $2F10
C19_Witness ==
  /\ IsRead(PPU_DATA)
  /\ ev.pre.ppu.vram_addr = 16144
  /\ ev.value = 68
  /\ ev.pre.ppu.read_buffer = 0
  /\ ppu_mem_read(ev.pre.ppu, 16128) = 68
  /\ ppu_mem_read(ev.pre.ppu, 12048) = 102
  /\ cpu.ppu.read_buffer = 102

\* the claim's pairing of nametables: $2000/$2400 and $2800/$2C00 under
\* Horizontal, $2000/$2800 and $2400/$2C00 under Vertical and FourScreen
SameNametable(mirroring, t, u) ==
  IF mirroring = "Horizontal" THEN t \div 2 = u \div 2 ELSE t % 2 = u % 2

\* the addresses of $2000-$3EFF with the offset of addr in their nametable
SameOffset(addr) ==
  {a \in {InTable(t, OffsetOf(addr)) : t \in 0..7} : a \in NametableAddrs}

\* C20: for every offset k, $2000+k and $2400+k name the same byte under
\* Horizontal, as do $2800+k and $2C00+k, while $2000+k and $2800+k are
\* independent; under Vertical, and under FourScreen, $2000+k and $2800+k
\* name the same byte, as do $2400+k and $2C00+k, while $2000+k and $2400+k
\* are independent; $3000+j names the byte of $2000+j.  A write through $2007
\* is read back at the paired addresses and leaves the others as they were,
\* and a read loads the buffer with the byte of every paired address
C20_NametableMirroring ==
  /\ (IsWrite(PPU_DATA) /\ (ev.pre.ppu.vram_addr % 16384) \in NametableAddrs) =>
        \A a \in SameOffset(ev.pre.ppu.vram_addr % 16384) :
           ppu_mem_read(cpu.ppu, a) =
             IF SameNametable(cpu.ppu.mirroring, TableOf(a),
                              TableOf(ev.pre.ppu.vram_addr % 16384))
             THEN ev.data
             ELSE ppu_mem_read(ev.pre.ppu, a)
  /\ (IsRead(PPU_DATA) /\ (ev.pre.ppu.vram_addr % 16384) \in NametableAddrs) =>
        \A a \in SameOffset(ev.pre.ppu.vram_addr % 16384) :
           SameNametable(cpu.ppu.mirroring, TableOf(a),
                         TableOf(ev.pre.ppu.vram_addr % 16384))
             => cpu.ppu.read_buffer = ppu_mem_read(ev.pre.ppu, a)

\* Horizontal: a write at $2C05 replaces the byte of $2805 and of $3C05 and
\* leaves the byte of $2005
C20_Witness ==
  /\ IsWrite(PPU_DATA)
  /\ cpu.ppu.mirroring = "Horizontal"
  /\ ev.pre.ppu.vram_addr = 11269
  /\ ppu_mem_read(ev.pre.ppu, 10245) = 17
  /\ ppu_mem_read(cpu.ppu, 10245) = 90
  /\ ppu_mem_read(cpu.ppu, 15365) = 90
  /\ ppu_mem_read(cpu.ppu, 8197) = 34

InPpuWindow(addr) == addr >= 8192 /\ addr <= 16383
InApuWindow(addr) == addr >= 16384 /\ addr <= 16407

\* the register address $2000 + ((a - $2000) mod 8)
RegisterAddress(addr) == 8192 + ((addr - 8192) % 8)

\* C21: a CPU read or write at an address a of $2000-$3FFF returns what the
\* same access at $2000 + ((a - $2000) mod 8) returns and leaves the CPU and
\* the PPU as that access leaves them, the side effects of $2002 and $2007
\* included
C21_PpuRegisterMirrors ==
  /\ (ev.op = "bus_read" /\ InPpuWindow(ev.addr)) =>
        <<ev.value, cpu>> = mem_read(ev.pre, RegisterAddress(ev.addr))
  /\ (ev.op = "bus_write" /\ InPpuWindow(ev.addr)) =>
        cpu = mem_write(ev.pre, RegisterAddress(ev.addr), ev.data)

\* the second read through a mirror of $2007 returns the byte stored at
\* $2000 and moves the address on
C21_Witness ==
  /\ ev.op = "bus_read"
  /\ ev.addr = 12287
  /\ ev.pre.ppu.vram_addr = 8193
  /\ ev.value = 17
  /\ cpu.ppu.read_buffer = 34
  /\ cpu.ppu.vram_addr = 8194

\* C22: a mem_write in the PPU window $2000-$3FFF or the APU window
\* $4000-$4017 leaves the CPU's internal byte array as it was; a read of an
\* APU register returns 0, except at $4015, where it returns the byte last
\* written to $4015
C22_RegisterWritesLeaveMemory ==
  /\ (ev.op = "bus_write" /\ (InPpuWindow(ev.addr) \/ InApuWindow(ev.addr))) =>
        cpu.memory = ev.pre.memory
  /\ (ev.op = "bus_read" /\ InApuWindow(ev.addr)) =>
        /\ ev.value = IF ev.addr = 16405 /\ ev.apu_status # <<>>
                      THEN ev.apu_status[1] ELSE 0
        /\ cpu = ev.pre

\* $4015 read back after $5A and then $1F were written to it
C22_Witness ==
  /\ ev.op = "bus_read"
  /\ ev.addr = 16405
  /\ ev.value = 31
  /\ ev.apu_status = <<31>>
  /\ Get(ev.pre.memory, 16405) = 0

\* C26: mem_read_u16(p) returns byte(p) + 256 * byte((p + 1) mod 65536) and
\* mem_write_u16(p, v) stores the low byte of v at p and the high byte at
\* (p + 1) mod 65536, for p = $FFFF too, where the second byte is at $0000
C26_WordAccessWraps ==
  /\ ev.op = "bus_read_u16" =>
        /\ ev.value = Peek(ev.pre, ev.addr) + 256 * Peek(ev.pre, (ev.addr + 1) % 65536)
        /\ cpu = ev.pre
  /\ ev.op = "bus_write_u16" =>
        /\ cpu = mem_write(mem_write(ev.pre, ev.addr, ev.data % 256),
                           (ev.addr + 1) % 65536, ev.data \div 256)
        /\ ~InApuWindow(ev.addr) =>
              /\ Peek(cpu, ev.addr) = ev.data % 256
              /\ Peek(cpu, (ev.addr + 1) % 65536) = ev.data \div 256

\* $1234 written at $FFFF and read back from there
C26_Witness ==
  /\ ev.op = "bus_read_u16"
  /\ ev.addr = 65535
  /\ ev.value = 4660
  /\ Peek(ev.pre, 65535) = 52
  /\ Peek(ev.pre, 0) = 18

\* the image handed to the loader of the last operation
LoadedPrg == IF ev.op = "load_cartridge" THEN ev.rom.prg_rom ELSE ev.prg_rom

\* C23: after a 16 KiB PRG image is loaded, by load_cartridge or by
\* load_prg_rom, mem_read(0x8000 + k) = mem_read(0xC000 + k) = PRG[k] for every
\* k in 0..0x3FFF; after a 32 KiB image, mem_read(0x8000 + k) = PRG[k] for
\* every k in 0..0x7FFF
C23_PrgWindow ==
  (ev.op \in {"load_cartridge", "load_prg_rom"} /\ ev.ok) =>
     /\ LoadedPrg.len = 16384 =>
           \A k \in 0..16383 :
              /\ Peek(cpu, 32768 + k) = Get(LoadedPrg.bytes, k)
              /\ Peek(cpu, 49152 + k) = Get(LoadedPrg.bytes, k)
     /\ LoadedPrg.len = 32768 =>
           \A k \in 0..32767 : Peek(cpu, 32768 + k) = Get(LoadedPrg.bytes, k)

\* a 16 KiB cartridge loaded over internal bytes that differ from it: the
\* last PRG byte is read at $BFFF and at $FFFF
C23_Witness ==
  /\ ev.op = "load_cartridge"
  /\ ev.ok
  /\ LoadedPrg.len = 16384
  /\ Get(cpu.memory, 65535) # 34
  /\ Get(cpu.memory, 32768) = 153
  /\ Peek(cpu, 32768) = 17
  /\ Peek(cpu, 49151) = 34
  /\ Peek(cpu, 65535) = 34

\* the internal bytes of $8000-$FFFF are the same in c and d
SameUpperBytes(c, d) ==
  \A a \in DOMAIN c.memory \cup DOMAIN d.memory :
     a >= 32768 => Get(c.memory, a) = Get(d.memory, a)

\* the CPU an operation that writes leaves: a host write, or an instruction
\* that completed
Wrote == ev.op \in {"bus_write", "bus_write_u16"} \/ (ev.op = "step" /\ ev.kind = "next")
AfterWrite == IF ev.op = "step" THEN ev.after ELSE cpu

\* C24: while an NROM cartridge is loaded no CPU write (mem_write,
\* mem_write_u16, a store or read-modify-write instruction, a push) changes
\* what mem_read returns in $8000-$FFFF: the mapper and its PRG bytes stay as
\* they are, and so do the internal bytes of $8000-$FFFF
C24_PrgIsReadOnly ==
  (Wrote /\ IsSome(ev.pre.mapper)) =>
     /\ AfterWrite.mapper = ev.pre.mapper
     /\ \A a \in PrgProbes : Peek(AfterWrite, a) = Peek(ev.pre, a)
     /\ SameUpperBytes(AfterWrite, ev.pre)
     /\ (ev.op = "bus_write" /\ ev.addr >= 32768) => cpu = ev.pre

\* STA $8000 with A = $5A under a 16 KiB cartridge: $8000 still reads the
\* first PRG byte, and the internal byte there is the one set before the load
C24_Witness ==
  /\ ev.op = "step" /\ ev.kind = "next" /\ ev.code = 141
  /\ IsSome(ev.pre.mapper)
  /\ ev.pre.register_a = 90
  /\ Peek(ev.pre, 1537) = 0 /\ Peek(ev.pre, 1538) = 128
  /\ Peek(ev.after, 32768) = 17
  /\ Get(ev.after.memory, 32768) = 153

\* what ppu_read(a) returns from a CHR RAM after the writes recorded in w
LastWritten(w, a) == [kind |-> "Some", byte |-> IF a \in DOMAIN w THEN w[a] ELSE 0]

\* C25: with CHR ROM a ppu_write in $0000-$1FFF returns true and leaves every
\* ppu_read as it was; CHR RAM starts as 8 KiB of zeros and ppu_read(a) returns
\* the value last written to a; above $1FFF ppu_read returns None and
\* ppu_write returns false
C25_ChrArea ==
  /\ (ev.op = "ppu_write" /\ ev.addr <= 8191 /\ ~ev.pre.mapper.chr_is_ram) =>
        /\ ev.ok
        /\ cpu.mapper = ev.pre.mapper
        /\ \A a \in ChrProbes : ppu_read(cpu.mapper, a) = ppu_read(ev.pre.mapper, a)
  /\ (ev.op = "load_cartridge" /\ ev.ok /\ ev.rom.has_chr_ram) =>
        /\ cpu.mapper.chr = [len |-> 8192, bytes |-> Zeros]
        /\ \A a \in ChrProbes : a <= 8191 => ppu_read(cpu.mapper, a) = LastWritten(<<>>, a)
  /\ (ev.op = "ppu_write" /\ ev.addr <= 8191 /\ ev.pre.mapper.chr_is_ram) =>
        /\ ev.ok
        /\ ppu_read(cpu.mapper, ev.addr) = [kind |-> "Some", byte |-> ev.data]
  /\ (ev.op = "ppu_read" /\ ev.addr <= 8191 /\ ev.pre.mapper.chr_is_ram) =>
        ev.result = LastWritten(ev.chr_written, ev.addr)
  /\ (ev.op = "ppu_read" /\ ev.addr > 8191) => ev.result.kind = "None"
  /\ (ev.op = "ppu_write" /\ ev.addr > 8191) => (~ev.ok /\ cpu = ev.pre)

\* a read of $0010 of an 8 KiB CHR ROM that still returns $AB after $CD was
\* written there
C25_Witness ==
  /\ ev.op = "ppu_read" /\ ev.addr = 16
  /\ ~ev.pre.mapper.chr_is_ram
  /\ ev.pre.mapper.chr.len = 8192
  /\ 16 \in DOMAIN ev.chr_written /\ ev.chr_written[16] = 205
  /\ ev.result = [kind |-> "Some", byte |-> 171]

\* the word a JSR left on the stack, and the word an RTS found there
PushedWord == Peek(ev.after, 256 + ev.pre.stack_pointer) * 256
              + Peek(ev.after, 256 + ((ev.pre.stack_pointer + 255) % 256))
PoppedWord == Peek(ev.pre, 256 + ((ev.pre.stack_pointer + 2) % 256)) * 256
              + Peek(ev.pre, 256 + ((ev.pre.stack_pointer + 1) % 256))

\* the values the program-counter computations of a step give when they wrap
PcComputationsWrap ==
  /\ Completed({234}) => ev.after.program_counter = (ev.opcode_pc + 1) % 65536
  /\ Completed({169}) => ev.after.program_counter = (ev.opcode_pc + 2) % 65536
  /\ Completed({173}) => ev.after.program_counter = (ev.opcode_pc + 3) % 65536
  /\ Completed({32})  => PushedWord = (ev.opcode_pc + 2) % 65536
  /\ Completed({96})  => ev.after.program_counter = (PoppedWord + 1) % 65536

\* C27: no program-counter computation of a step faults: the increment after
\* the fetch, the advance past the operands, the return address JSR pushes and
\* the +1 of RTS all wrap modulo 65536
C27_PcArithmeticWraps ==
  (ev.op = "step") => (ev.kind # "panic" /\ PcComputationsWrap)

\* C27 where the build does not check arithmetic overflow
C27_WrapsWithoutOverflowChecks ==
  (ev.op = "step" /\ ~overflow_checks) => (ev.kind # "panic" /\ PcComputationsWrap)

\* iterations that completed by wrapping: a NOP fetched at $FFFF, and an RTS
\* that popped $FFFF
C27_WrappedFetch ==
  Completed({234}) /\ ev.opcode_pc = 65535 /\ ev.after.program_counter = 0
C27_WrappedReturn ==
  Completed({96}) /\ PoppedWord = 65535 /\ ev.after.program_counter = 0

\* the JSR iterations of the call before the current one, and the last of them
EarlierJsrs == {i \in 1..(Len(run.log) - 1) : run.log[i].code = 32 /\ run.log[i].kind = "next"}
MatchingJsr == run.log[CHOOSE i \in EarlierJsrs : \A j \in EarlierJsrs : j <= i]

\* the RTS finds the stack pointer where the JSR left it
Balanced ==
  ev.pre.stack_pointer = (MatchingJsr.pre.stack_pointer + 254) % 256

\* C28: JSR at p pushes the word p + 2, high byte first, and jumps to its
\* operand; an RTS that finds the stack as the JSR left it sets PC to p + 3
\* and SP to its value before the JSR
C28_JsrRtsPair ==
  /\ Completed({32}) =>
        /\ PushedWord = ev.opcode_pc + 2
        /\ Peek(ev.after, 256 + ev.pre.stack_pointer) = (ev.opcode_pc + 2) \div 256
        /\ ev.after.stack_pointer = (ev.pre.stack_pointer + 254) % 256
        /\ ev.after.program_counter = Peek16(ev.pre, ev.opcode_pc + 1)
  /\ (Completed({96}) /\ EarlierJsrs # {} /\ Balanced) =>
        /\ ev.after.program_counter = MatchingJsr.opcode_pc + 3
        /\ ev.after.stack_pointer = MatchingJsr.pre.stack_pointer

\* what holds of C28: everything but the jump of a JSR whose operand is the
\* address right after its opcode, where the operand advance applies
C28_JsrRtsPairApartFromAdvance ==
  /\ Completed({32}) =>
        /\ PushedWord = ev.opcode_pc + 2
        /\ Peek(ev.after, 256 + ev.pre.stack_pointer) = (ev.opcode_pc + 2) \div 256
        /\ ev.after.stack_pointer = (ev.pre.stack_pointer + 254) % 256
        /\ Peek16(ev.pre, ev.opcode_pc + 1) # ev.opcode_pc + 1 =>
              ev.after.program_counter = Peek16(ev.pre, ev.opcode_pc + 1)
  /\ (Completed({96}) /\ EarlierJsrs # {} /\ Balanced) =>
        /\ ev.after.program_counter = MatchingJsr.opcode_pc + 3
        /\ ev.after.stack_pointer = MatchingJsr.pre.stack_pointer

\* JSR at $06FD, SP = 0: after PHA PLA the RTS returns to $0700 with SP = 0
C28_BalancedReturn ==
  /\ Completed({96}) /\ EarlierJsrs # {} /\ Balanced
  /\ Len(run.log) = 4
  /\ MatchingJsr.opcode_pc = 1789
  /\ MatchingJsr.pre.stack_pointer = 0
  /\ ev.after.program_counter = 1792
  /\ ev.after.stack_pointer = 0

\* a byte read as a two's-complement number
Signed(b) == AsI8(b)

\* A + M + C of the ADC that ran, unsigned and signed
AdcSum == ev.pre.register_a + Operand + (ev.pre.status % 2)
AdcSignedSum == Signed(ev.pre.register_a) + Signed(Operand) + (ev.pre.status % 2)

\* the CPU after the same ADC run from the state with DECIMAL the other way
DecimalTwin ==
  step([ev.pre EXCEPT !.status = BitXor(@, DECIMAL_MODE)], overflow_checks).cpu

\* C29: ADC leaves A' = (A + M + C) mod 256, CARRY = (A + M + C > 255) and
\* OVERFLOW = ((M xor A') and (A' xor A) and $80) # 0, which is set exactly
\* when the signed sum of A, M and C is outside -128..127; DECIMAL changes
\* none of them
C29_AdcArithmetic ==
  Completed(AdcOps) =>
     /\ ev.after.register_a = AdcSum % 256
     /\ contains(ev.after.status, CARRY) <=> (AdcSum > 255)
     /\ contains(ev.after.status, OVERFLOW) <=>
          (BitAnd(BitAnd(BitXor(Operand, ev.after.register_a),
                         BitXor(ev.after.register_a, ev.pre.register_a)), 128) # 0)
     /\ contains(ev.after.status, OVERFLOW) <=> (AdcSignedSum \notin -128..127)
     /\ ev.after.register_a = DecimalTwin.register_a
     /\ \A f \in {CARRY, OVERFLOW} :
           contains(ev.after.status, f) <=> contains(DecimalTwin.status, f)
     /\ contains(ev.after.status, DECIMAL_MODE) <=> contains(ev.pre.status, DECIMAL_MODE)

\* ADC #$00 from A = $7F with CARRY and DECIMAL set: A = $80, no carry out,
\* OVERFLOW set (the signed sum is 128)
C29_Witness ==
  /\ Completed({105})
  /\ ev.pre.register_a = 127 /\ Operand = 0
  /\ contains(ev.pre.status, CARRY) /\ contains(ev.pre.status, DECIMAL_MODE)
  /\ ev.after.register_a = 128
  /\ ~contains(ev.after.status, CARRY)
  /\ contains(ev.after.status, OVERFLOW)

\* the byte PLP or RTI pops first
PoppedByte == Peek(ev.pre, 256 + ((ev.pre.stack_pointer + 1) % 256))

\* C30: PHP pushes P with BREAK and BREAK2 set and leaves P as it was; PLP
\* and RTI load P from the popped byte with BREAK cleared and BREAK2 set and
\* the other six bits as they are in that byte
C30_StatusPushPull ==
  /\ Completed({8}) =>
        /\ Peek(ev.after, 256 + ev.pre.stack_pointer) = BitOr(ev.pre.status, BREAK + BREAK2)
        /\ ev.after.stack_pointer = (ev.pre.stack_pointer + 255) % 256
        /\ ev.after.status = ev.pre.status
  /\ Completed({40, 64}) =>
        /\ ~contains(ev.after.status, BREAK)
        /\ contains(ev.after.status, BREAK2)
        /\ BitAnd(ev.after.status, 255 - BREAK - BREAK2)
             = BitAnd(PoppedByte, 255 - BREAK - BREAK2)

\* RTI of the byte $DF (BREAK set, BREAK2 clear) from P = $24: P = $EF
C30_Witness ==
  /\ Completed({64})
  /\ ev.pre.status = 36
  /\ PoppedByte = 223
  /\ ev.after.status = 239

\* C31: BIT with operand M sets ZERO exactly when (A and M) = 0, copies bit 7
\* of M into NEGATIVE and bit 6 of M into OVERFLOW, and leaves A, X, Y, SP,
\* CARRY (and the other flags) and memory as they were
C31_BitTest ==
  Completed(BitOps) =>
     /\ contains(ev.after.status, ZERO) <=> (BitAnd(ev.pre.register_a, Operand) = 0)
     /\ contains(ev.after.status, NEGATIV) <=> (Operand \div 128 = 1)
     /\ contains(ev.after.status, OVERFLOW) <=> ((Operand \div 64) % 2 = 1)
     /\ \A f \in {CARRY, INTERRUPT_DISABLE, DECIMAL_MODE, BREAK, BREAK2} :
           contains(ev.after.status, f) <=> contains(ev.pre.status, f)
     /\ ev.after.register_a = ev.pre.register_a
     /\ ev.after.register_x = ev.pre.register_x
     /\ ev.after.register_y = ev.pre.register_y
     /\ ev.after.stack_pointer = ev.pre.stack_pointer
     /\ ev.after.memory = ev.pre.memory

\* BIT $10 with A = $01 and M = $C0 from cleared flags: ZERO, NEGATIVE and
\* OVERFLOW all set, A still $01
C31_Witness ==
  /\ Completed({36})
  /\ ev.pre.register_a = 1 /\ Operand = 192
  /\ ev.pre.status = 36
  /\ ev.after.status = 36 + ZERO + NEGATIV + OVERFLOW
  /\ ev.after.register_a = 1

\* the pointer word q of the JMP (indirect) that ran, and the word the claim
\* names: low byte at q, high byte at q + 1, or at the start of q's page when
\* the low byte of q is $FF
Pointer == Peek16(ev.pre, (ev.opcode_pc + 1) % 65536)
PointedWord ==
  Peek(ev.pre, Pointer)
    + 256 * Peek(ev.pre, IF Pointer % 256 = 255 THEN Pointer - 255 ELSE Pointer + 1)

\* C32: JMP (indirect) with pointer word q loads PC from the low byte at q and
\* the high byte at q + 1, or at (q and $FF00) when the low byte of q is $FF
C32_IndirectJumpLoadsWord ==
  Completed({108}) => ev.after.program_counter = PointedWord

\* what holds of C32: the arm of the match assigns that word, and the step
\* ends on it unless it is the address right after the opcode, where the
\* operand advance applies
C32_IndirectJump ==
  Completed({108}) =>
     /\ jmp_indirect(AtMatch).program_counter = PointedWord
     /\ PointedWord # (ev.opcode_pc + 1) % 65536 => ev.after.program_counter = PointedWord

\* JMP ($02FF) with $34 at $02FF, $12 at $0200 and $56 at $0300 ends at $1234
C32_WrappedPointer ==
  /\ Completed({108})
  /\ Pointer = 767
  /\ Peek(ev.pre, 767) = 52 /\ Peek(ev.pre, 512) = 18 /\ Peek(ev.pre, 768) = 86
  /\ ev.after.program_counter = 4660

\* the access before the current one, if any
Accesses == accesses_of(ev)
PreviousAccess == Accesses[Len(Accesses) - 1]
SecondOfPair ==
  /\ IsWrite(PPU_ADDR)
  /\ Len(Accesses) >= 2
  /\ PreviousAccess.rw = "w" /\ PreviousAccess.reg = PPU_ADDR
  /\ ev.pre.ppu.addr_latch

\* C33: from addr_latch clear, the first write of $2006 changes
\* temp_vram_addr but not vram_addr; the second, right after it, leaves
\* vram_addr = temp_vram_addr = (hi and $3F) * 256 + lo and addr_latch clear
C33_AddressPair ==
  /\ (IsWrite(PPU_ADDR) /\ ~ev.pre.ppu.addr_latch) =>
        /\ cpu.ppu.vram_addr = ev.pre.ppu.vram_addr
        /\ cpu.ppu.temp_vram_addr =
             (ev.pre.ppu.temp_vram_addr % 256) + (ev.data % 64) * 256
        /\ cpu.ppu.addr_latch
  /\ SecondOfPair =>
        /\ cpu.ppu.vram_addr = (PreviousAccess.data % 64) * 256 + ev.data
        /\ cpu.ppu.temp_vram_addr = cpu.ppu.vram_addr
        /\ ~cpu.ppu.addr_latch

\* $2006 written with $FF then $12 on a PPU whose latch was clear:
\* vram_addr = temp_vram_addr = $3F12
C33_Witness ==
  /\ SecondOfPair
  /\ PreviousAccess.data = 255 /\ ev.data = 18
  /\ cpu.ppu.vram_addr = 16146 /\ cpu.ppu.temp_vram_addr = 16146
  /\ ~cpu.ppu.addr_latch

\* C34: in every reachable PPU state vram_addr and temp_vram_addr are 15-bit
\* values (below $8000)
C34_FifteenBitAddresses ==
  /\ cpu.ppu.vram_addr < 32768
  /\ cpu.ppu.temp_vram_addr < 32768

\* the part of C34 that every register access keeps: temp_vram_addr is a
\* 15-bit value, and PPUADDR loads a 15-bit value into vram_addr
C34_TempAddressFifteenBits ==
  /\ cpu.ppu.temp_vram_addr < 32768
  /\ IsWrite(PPU_ADDR) => cpu.ppu.vram_addr < 32768

\* a PPUDATA access that moved vram_addr from $7FFF to $8000
C34_AddressLeavesFifteenBits ==
  /\ (IsRead(PPU_DATA) \/ IsWrite(PPU_DATA))
  /\ ev.pre.ppu.vram_addr = 32767
  /\ cpu.ppu.vram_addr = 32768

\* the position of the last read of $2002 among the accesses (0 if none), and
\* the number of writes of a register after it
LastStatusRead ==
  LET reads == {i \in 1..Len(Accesses) :
                  Accesses[i].rw = "r" /\ Accesses[i].reg = PPU_STATUS}
  IN IF reads = {} THEN 0 ELSE CHOOSE i \in reads : \A j \in reads : j <= i
WritesSince(reg) ==
  Cardinality({i \in (LastStatusRead + 1)..Len(Accesses) :
                 Accesses[i].rw = "w" /\ Accesses[i].reg = reg})

\* C35: addr_latch is true exactly when the number of $2006 writes since the
\* PPU was created or $2002 was last read is odd, scroll_latch exactly when
\* the number of $2005 writes since then is odd; a $2005 write leaves
\* addr_latch alone and a $2006 write leaves scroll_latch alone
C35_LatchParity ==
  (ev.op \in {"ppu_new", "write_register", "read_register"}) =>
     /\ cpu.ppu.addr_latch <=> (WritesSince(PPU_ADDR) % 2 = 1)
     /\ cpu.ppu.scroll_latch <=> (WritesSince(PPU_SCROLL) % 2 = 1)
     /\ IsWrite(PPU_SCROLL) => cpu.ppu.addr_latch = ev.pre.ppu.addr_latch
     /\ IsWrite(PPU_ADDR) => cpu.ppu.scroll_latch = ev.pre.ppu.scroll_latch

\* both latches set, then $2002 read, then one $2006 write: addr_latch is set
\* again and scroll_latch is still clear
C35_Witness ==
  /\ IsWrite(PPU_ADDR)
  /\ Len(Accesses) = 4
  /\ Accesses[1] = Written(PPU_ADDR, 255)
  /\ Accesses[2] = Written(PPU_SCROLL, 255)
  /\ Accesses[3] = Read_(PPU_STATUS)
  /\ cpu.ppu.addr_latch /\ ~cpu.ppu.scroll_latch

\* C36: the CPU and the PPU hold the same mapper or none: a load_cartridge
\* that succeeds installs one new shared mapper in both, one that fails
\* leaves both as they were, and load_prg_rom removes it from both
C36_MapperCoOwned ==
  /\ cpu.mapper = cpu.ppu.mapper
  /\ (ev.op = "load_cartridge" /\ ev.ok) =>
        /\ IsSome(cpu.mapper) /\ IsSome(cpu.ppu.mapper)
        /\ cpu.mapper.id = next_mapper_id - 1
        /\ cpu.mapper.id # ev.pre.mapper.id
  /\ (ev.op = "load_cartridge" /\ ~ev.ok) =>
        (cpu.mapper = ev.pre.mapper /\ cpu.ppu.mapper = ev.pre.ppu.mapper)
  /\ ev.op = "load_prg_rom" => (~IsSome(cpu.mapper) /\ ~IsSome(cpu.ppu.mapper))

\* a second cartridge, with another PRG image, replaced the first in both
C36_Witness ==
  /\ ev.op = "load_cartridge" /\ ev.ok
  /\ IsSome(ev.pre.mapper) /\ ev.pre.ppu.mapper = ev.pre.mapper
  /\ cpu.mapper.id = 2 /\ cpu.ppu.mapper.id = 2
  /\ cpu.mapper.prg_rom # ev.pre.mapper.prg_rom

\* the status byte an interrupt entry or a PHP left on the stack
StatusOnStack ==
  IF ev.op = "step"
  THEN Peek(ev.after, 256 + ev.pre.stack_pointer)
  ELSE Peek(cpu, 256 + ((ev.pre.stack_pointer + 254) % 256))

Entered(ops_) == ev.op \in ops_ /\ ev.handled

\* C37: from reset on, through executed instructions and trigger_nmi /
\* trigger_irq / trigger_brk, the live P has BREAK2 set and BREAK clear;
\* BREAK is set only in the bytes PHP and trigger_brk push
C37_BreakOnlyOnStack ==
  /\ ops > 0 => (contains(cpu.status, BREAK2) /\ ~contains(cpu.status, BREAK))
  /\ Entered({"trigger_nmi", "trigger_irq"}) =>
        (~contains(StatusOnStack, BREAK) /\ contains(StatusOnStack, BREAK2))
  /\ (Entered({"trigger_brk"}) \/ Completed({8})) =>
        (contains(StatusOnStack, BREAK) /\ contains(StatusOnStack, BREAK2))

\* PLP of the byte trigger_brk pushed: the byte has BREAK set, the live P
\* loaded from it has not
C37_Witness ==
  /\ Completed({40})
  /\ Len(run.log) = 1
  /\ Peek(ev.pre, 256 + ((ev.pre.stack_pointer + 1) % 256)) = 52
  /\ ev.after.status = 36
  /\ cpu.status = 36

\* the interrupt entry the RTI that just completed returned from
Unwound == ev.unwound[1]

\* an RTI completed, and SP was then where its interrupt entry had left it
ReturnedBalanced ==
  /\ Completed({64})
  /\ ev.unwound # <<>>
  /\ ev.pre.stack_pointer = (Unwound.stack_pointer + 253) % 256

\* C38: an RTI executed with the stack balanced since its interrupt entry
\* (trigger_nmi, handled trigger_irq or trigger_brk) restores PC and SP to
\* their values before that entry, and P to its value before the entry with
\* BREAK clear and BREAK2 set; nested entries unwind last in, first out
C38_EntryThenRti ==
  ReturnedBalanced =>
    /\ cpu.program_counter = Unwound.program_counter
    /\ cpu.stack_pointer = Unwound.stack_pointer
    /\ cpu.status = insert(remove(Unwound.status, BREAK), BREAK2)

\* two nested entries, an NMI inside the NMI handler, unwound by two RTIs: the
\* second RTI returns to the interrupted program, SP wrapped on the way
C38_Witness ==
  /\ ReturnedBalanced
  /\ entered_of(ev) = <<>>
  /\ \E i \in 1..Len(run.log) - 1 : run.log[i].code = 64 /\ run.log[i].kind = "next"
  /\ run.log[1].opcode_pc = 1792
  /\ cpu.program_counter = 1536
  /\ cpu.stack_pointer = 1
  /\ cpu.status = 235

\* the operation began with INTERRUPT_DISABLE set
Masked == ev.op # "new" /\ contains(ev.pre.status, INTERRUPT_DISABLE)

\* the byte a PLP or RTI that starts from c pops into P
StatusToPull(c) == Peek(c, 256 + ((c.stack_pointer + 1) % 256))

\* the instruction that just completed is one that clears INTERRUPT_DISABLE:
\* CLI, or PLP / RTI popping a byte with that bit clear
ClearedInterruptDisable ==
  \/ Completed({88})
  \/ Completed({40, 64}) /\ ~contains(StatusToPull(ev.pre), INTERRUPT_DISABLE)

\* C39: an interrupt entry leaves INTERRUPT_DISABLE set; while it is set a
\* trigger_irq returns false and changes nothing, and it stays set until an
\* executed CLI, or a PLP / RTI popping a byte with the bit clear; trigger_nmi
\* pushes its frame and takes its vector whatever INTERRUPT_DISABLE is
C39_IrqMaskedUntilCleared ==
  /\ IsEntry => contains(cpu.status, INTERRUPT_DISABLE)
  /\ (Masked /\ ev.op = "trigger_irq") => (~ev.handled /\ cpu = ev.pre)
  /\ (Masked /\ ~contains(cpu.status, INTERRUPT_DISABLE)) => ClearedInterruptDisable
  /\ ev.op = "trigger_nmi" =>
       /\ cpu.stack_pointer = (ev.pre.stack_pointer + 253) % 256
       /\ Peek(cpu, 256 + ev.pre.stack_pointer) = Hi(ev.pre.program_counter)
       /\ Peek(cpu, 256 + ((ev.pre.stack_pointer + 255) % 256)) = Lo(ev.pre.program_counter)
       /\ StatusOnStack = insert(remove(ev.pre.status, BREAK), BREAK2)
       /\ cpu.program_counter = Peek16(ev.pre, NMI_VECTOR)

\* an IRQ right after an NMI entry is refused
C39_Witness ==
  /\ ev.op = "trigger_irq"
  /\ ~ev.handled
  /\ entered_of(ev) # <<>>
  /\ cpu.stack_pointer = 250

\* after an entry and a CLI in the handler the next IRQ is taken
C39_TakenAfterCli ==
  /\ ev.op = "trigger_irq"
  /\ ev.handled
  /\ Len(entered_of(ev)) = 2
  /\ \E i \in 1..Len(run.log) : run.log[i].code = 88 /\ run.log[i].kind = "next"

\* an NMI entered with INTERRUPT_DISABLE set
C39_NmiWhileMasked ==
  /\ ev.op = "trigger_nmi"
  /\ Masked
  /\ Len(entered_of(ev)) = 2

\* a snapshot was just taken, by current_trace_state or for the trace
\* observer after a step; Untraced is the CPU as it was without the snapshot
Snapshot ==
  \/ ev.op = "current_trace_state"
  \/ ev.op = "step" /\ ev.kind = "next" /\ run.cb = "trace"
Untraced == IF ev.op = "step" THEN ev.after ELSE ev.pre

\* C40: taking the trace snapshot leaves all CPU state and all PPU state
\* unchanged for every value of PC, so a traced run reaches the states of the
\* same run without tracing
C40_TraceIsPureObservation == Snapshot => cpu = Untraced

\* the snapshot changes nothing when PC is outside the PPU registers
\* $2000-$3FFF
C40_PureOutsidePpuRegisters ==
  (Snapshot /\ Untraced.program_counter \notin 8192..16383) => cpu = Untraced

\* a snapshot with PC on PPUDATA read the register: vram_addr moved on
C40_SnapshotReadsPpuData ==
  /\ ev.op = "current_trace_state"
  /\ ev.pre.program_counter = 8199
  /\ ev.pre.ppu.vram_addr = 0
  /\ cpu.ppu.vram_addr = 1

\* a traced run that jumped to PPUDATA: the observer's snapshot read it
C40_TracedRunDiverges ==
  /\ Completed({76})
  /\ run.cb = "trace"
  /\ ev.after.ppu.vram_addr = 0
  /\ cpu.ppu.vram_addr = 1

====
